---- MODULE Spec2Model ----
(***************************************************************************)
(* A model of the IPX production software (IPX_CLI): the retry/escalation  *)
(* handlers of Failure_handlers.py, the calibration loop and the           *)
(* datalogger verification stage of IPX_workflows.py, and, from IPX.py,    *)
(* the framed serial reader, the per-device methods of the communicator    *)
(* with their response verification, and the calibration validator.        *)
(***************************************************************************)
EXTENDS Integers, Sequences, FiniteSets, TLC

VARIABLES
    \* ---- retry_on_failure / retry_on_exception (Failure_handlers.py) ----
    r_flavor,     \* which combinator runs: "failure" or "exception"
    r_op,         \* the operation_func wrapped
    r_handled,    \* the handled_exceptions tuple, as a set of class names
    r_promptfn,   \* the prompt_func argument of retry_on_failure
    r_pc,         \* "idle", "call", "prompt", "returned", "raised"
    r_result,     \* the local variable `result` ("UNBOUND" until assigned)
    r_ret,        \* the value the call returned (when r_pc = "returned")
    r_exc,        \* the exception that left the call (when r_pc = "raised")
    r_trace,      \* what happened so far: operation calls and prompts
    \* ---- _run_calibration_loop (IPX_workflows.py) ----
    c_pc,         \* "idle", "attempt", "prompt_mag", "prompt_stuck", "prompt_exc",
                  \* "returned", "raised"
    c_idx,        \* position in uids_list of the UID being calibrated
    c_counter,    \* the local variable `counter`
    c_exc,        \* the exception that left the loop (when c_pc = "raised")
    c_status,     \* per UID: "pending", "calibrated" or "skipped"
    c_last,       \* what the device did in the most recent attempt
    c_attempts,   \* calibrate commands sent so far, all UIDs
    c_fails,      \* failed attempts of the current UID so far
    c_aborted,    \* the operator has answered "abort" at some prompt
    c_afterAbort, \* prompts shown and attempts made after that answer
    c_answer,     \* the operator's answer in the step just taken ("none": no prompt)
    c_cmds,       \* per UID: calibrate commands sent to it so far
    \* ---- run_configuration_flow, datalogger verification stage ----
    f_pc,         \* "idle", "enter", "loop", "inretry", "analysis", "returned", "raised"
    f_inserts,    \* the `inserts` flag: TRUE runs Geosense, FALSE runs Modbus
    f_idx,        \* position in the UID list of the sensor under test
    f_record,     \* length of modbus_record / measurement_record
    f_open,       \* the tester's connection is open
    f_ret,        \* what run_configuration_flow returned
    f_exc,        \* the exception that left run_configuration_flow
    f_report,     \* final_status of the last report.save_report call
    f_aborted,    \* the operator answered "abort" at a retry prompt of the stage
    f_suppressed, \* an __exit__ swallowed the exception that left its block
    \* ---- IPXSerialCommunicator._send_and_receive_listen (IPX.py) ----
    l_pc,         \* "idle", "start", "wait_first", "loop", "returned", "raised"
    l_conn,       \* self.connection is set (the port is open)
    l_term,       \* stop_on_string: "None" or the terminator text
    l_sent,       \* every byte the device has sent since the command was written
    l_inwaiting,  \* bytes received by the port and not read yet (in_waiting)
    l_first,      \* the first read: "none" (not done), "byte" or "timeout"
    l_all,        \* all_responses
    l_dbuf,       \* decode_buffer
    l_idle,       \* clock ticks since start_time
    l_ret,        \* the frame returned (when l_pc = "returned")
    l_exc,        \* the exception raised (when l_pc = "raised")
    l_ops,        \* the operations done on the channel: "reset", "write", "read"
    l_read,       \* every byte the port handed to a read() call, in order
    l_decfail,    \* decode_buffer.decode raised UnicodeDecodeError in some iteration
    \* ---- IPXSerialCommunicator: one per-device operation (IPX.py) ----
    m_op,         \* the method called: get_status, get_raw, calibrate or a setter
    m_uid,        \* its uid argument (current_uid for set_uid)
    m_arg,        \* the value a setter sets
    m_dtype,      \* its data_type argument ("none" for a setter)
    m_verify,     \* self.verify
    m_pc,         \* "idle", "call", "transport", "returned", "raised"
    m_wire,       \* the commands handed to _send_and_receive_listen, in order
    m_resp,       \* the bytes _send_and_receive_listen returned
    m_ret,        \* the value the method returned
    m_exc,        \* the exception that left the method
    m_msg,        \* what the message of an IPXVerificationError carries
    m_warned,     \* the UID 0 warning was logged
    \* ---- IPXConfigurator.validate_calibration_results (IPX.py) ----
    v_pc,         \* "idle", "call", "done"
    v_df,         \* cal_df: the calibration records, one per row
    v_ret,        \* the tuple returned
    \* ---- IPXConfigurator.abnormal_high_magnitude_check, raw_data_check ----
    k_fn,         \* the method called
    k_pc,         \* "idle", "call", "read", "done", "raised"
    k_index,      \* sensor_index
    k_num,        \* num_readings
    k_uselog,     \* use_log
    k_readings,   \* raw_readings_list (the one sample, for the magnitude check)
    k_gets,       \* get_raw calls made so far
    k_ret,        \* the value returned: (passed, raw_values)
    k_exc,        \* the exception that left the method
    k_div,        \* the values a modified z-score was divided by
    \* ---- a with statement over a connection's context manager ----
    w_cm,         \* the class whose instance the with statement manages
    w_pc,         \* "idle", "enter", "body", "exit", "after", "returned", "raised"
    w_open,       \* the serial connection is open
    w_cmds,       \* commands the body has exchanged with the device
    w_body,       \* how control left the body
    w_exc,        \* the exception that goes on after the with statement
    \* ---- sensor detection: retry_on_failure(verify_sensor_count) in a flow ----
    d_flow,       \* the flow running: run_configuration_flow or run_uid_update_flow
    d_pc,         \* "idle", "verify", "verified", "prompt", "unpack", "proceed",
                  \* "returned", "raised"
    d_num,        \* num_sensors
    d_maxretries, \* self.max_retries
    d_attempt,    \* list_uids round trips of the current verify_sensor_count call
    d_lists,      \* what each of them returned (all_uids), in order
    d_calls,      \* verify_sensor_count calls so far
    d_result,     \* `result`: what verify_sensor_count / retry_on_failure hands back
    d_prompts,    \* the error_message each prompt was shown with
    d_answers,    \* the operator's answers
    d_ret,        \* what the flow returned
    d_exc,        \* the exception that left the flow
    d_raised,     \* the exception raised inside the flow's with block
    \* ---- rendering a command template (IPX_Config.py, IPX.py) ----
    t_pc,         \* "idle", "call", "done"
    t_op,         \* the template rendered
    t_args,       \* the values given for its placeholders, in template order
    t_cmd,        \* the rendered command, as its pieces of text
    \* ---- gxm_measure_test (IPX_datalogger_tester.py) ----
    g_pc,         \* "idle", "call", "parsed", "done"
    g_parts,      \* the measurement the insert answered: axis (1e-5 units), temperature
    g_clamped,    \* AxisA_clamped, in 1e-5 units
    g_ret,        \* <<result dict>> once returned, <<>> before and after a raise
    g_exc,        \* the exception that left gxm_measure_test
    \* ---- set_default_parameters (IPX.py) ----
    p_pc,         \* "idle", "loop", "returned", "raised"
    p_args,       \* the arguments: uids_list, baud, set_aliases
    p_idx,        \* position in the list of the UID being set
    p_step,       \* position in the setter sequence of the next setter
    p_cmds,       \* the setter calls made: method, uid text, value text
    p_ret,        \* the list returned
    p_exc,        \* the exception that left set_default_parameters
    \* ---- initial_uid_update (IPX_workflows.py) ----
    u_pc,         \* "idle", "call", "list", "confirm", "next", "returned", "raised"
    u_port,       \* com_port
    u_uids,       \* uids_list of the current pass
    u_passes,     \* passes of `while True` begun
    u_cmds,       \* the set_uid commands sent: current_uid, new_uid
    u_log,        \* the error messages logged
    u_exc         \* the exception that left initial_uid_update

rvars == <<r_flavor, r_op, r_handled, r_promptfn, r_pc, r_result, r_ret, r_exc, r_trace>>

cvars == <<c_pc, c_idx, c_counter, c_exc, c_status, c_last, c_attempts, c_fails,
           c_aborted, c_afterAbort, c_answer, c_cmds>>

fvars == <<f_pc, f_inserts, f_idx, f_record, f_open, f_ret, f_exc, f_report,
           f_aborted, f_suppressed>>

lvars == <<l_pc, l_conn, l_term, l_sent, l_inwaiting, l_first, l_all, l_dbuf, l_idle,
           l_ret, l_exc, l_ops, l_read, l_decfail>>

mvars == <<m_op, m_uid, m_arg, m_dtype, m_verify, m_pc, m_wire, m_resp, m_ret, m_exc,
           m_msg, m_warned>>

vvars == <<v_pc, v_df, v_ret>>

kvars == <<k_fn, k_pc, k_index, k_num, k_uselog, k_readings, k_gets, k_ret, k_exc, k_div>>

wvars == <<w_cm, w_pc, w_open, w_cmds, w_body, w_exc>>

dvars == <<d_flow, d_pc, d_num, d_maxretries, d_attempt, d_lists, d_calls, d_result,
           d_prompts, d_answers, d_ret, d_exc, d_raised>>

tvars == <<t_pc, t_op, t_args, t_cmd>>

gvars == <<g_pc, g_parts, g_clamped, g_ret, g_exc>>

pvars == <<p_pc, p_args, p_idx, p_step, p_cmds, p_ret, p_exc>>

uvars == <<u_pc, u_port, u_uids, u_passes, u_cmds, u_log, u_exc>>

vars == <<rvars, cvars, fvars, lvars, mvars, vvars, kvars, wvars, dvars, tvars, gvars, pvars, uvars>>

(***************************************************************************)
(* Bounds of the model.                                                    *)
(***************************************************************************)
\* operation_func is invoked at most this many times in one combinator call
MaxCalls == 3
\* uids_list holds this many UIDs
NumUids == 2
\* the calibration loop sends at most this many calibrate commands in all
MaxAttempts == 5
\* the device sends at most this many bytes in answer to one command
MaxStream == 4
\* listen_duration, in clock ticks
ListenTicks == 1
\* a device response to a setter or a read holds at most this many bytes
MaxResp == 3
\* cal_df holds at most this many rows
MaxRecords == 2
\* a raw sample given to the magnitude check holds at most this many values
MaxSample == 4
\* num_readings of raw_data_check is at most this
MaxReadings == 3
\* the body of a with block exchanges at most this many commands
MaxBodyCmds == 2
\* self.max_retries of the configurator is at most this
MaxRetries == 2
\* verify_sensor_count is called at most this many times in one detection step
MaxDetectCalls == 2
\* uids_list given to set_default_parameters holds at most this many UIDs
MaxListed == 3
\* initial_uid_update begins at most this many passes of its loop
MaxPasses == 3

(***************************************************************************)
(* Exceptions: the classes the code raises and Python's class hierarchy.   *)
(***************************************************************************)
ExcClasses ==
    {"BaseException", "Exception", "KeyboardInterrupt", "ValueError", "TypeError",
     "KeyError", "NameError", "UnboundLocalError", "UserAbortError",
     "IPXSerialError", "IPXNoResponseError", "IPXCorruptedDataError",
     "IPXVerificationError", "IPXConfigurationError", "CALIBRATION_CHECK_ERROR",
     "IPXModbusError", "RuntimeError"}

\* The direct base class of each exception class.
ExcParent(c) ==
    CASE c = "Exception"               -> "BaseException"
      [] c = "KeyboardInterrupt"       -> "BaseException"
      [] c = "ValueError"              -> "Exception"
      [] c = "TypeError"               -> "Exception"
      [] c = "KeyError"                -> "Exception"
      [] c = "NameError"               -> "Exception"
      [] c = "UnboundLocalError"       -> "NameError"
      [] c = "UserAbortError"          -> "Exception"
      [] c = "IPXSerialError"          -> "Exception"
      [] c = "IPXNoResponseError"      -> "IPXSerialError"
      [] c = "IPXCorruptedDataError"   -> "IPXSerialError"
      [] c = "IPXVerificationError"    -> "IPXSerialError"
      [] c = "IPXConfigurationError"   -> "Exception"
      [] c = "CALIBRATION_CHECK_ERROR" -> "IPXConfigurationError"
      [] c = "IPXModbusError"          -> "Exception"
      [] c = "RuntimeError"            -> "Exception"
      [] OTHER                         -> "BaseException"

RECURSIVE IsInstance(_, _)
\* isinstance(e, cls): cls is e's class or one of its bases.
IsInstance(e, cls) ==
    IF e = cls THEN TRUE
    ELSE IF e = "BaseException" THEN FALSE
    ELSE IsInstance(ExcParent(e), cls)

\* `except H as e` matches e when e is an instance of a class of the tuple H.
ExceptMatches(e, H) == \E cls \in H : IsInstance(e, cls)

\* `except Exception` (the generic handler).
CaughtByExceptException(e) == IsInstance(e, "Exception")

(***************************************************************************)
(* Failure_handlers.py: the two prompts and the two retry combinators.     *)
(***************************************************************************)
\* The default of handled_exceptions.
DefaultHandled == {"Exception"}

\* The handled_exceptions tuples the model passes.
HandledChoices == {DefaultHandled, {"IPXSerialError"}, {"ValueError", "IPXNoResponseError"}}

\* What one operation_func call can do: return a value or raise.
OpReturns == {"ok", "False", "None"}
OpRaises  == {"IPXNoResponseError", "ValueError", "UserAbortError", "KeyboardInterrupt"}
OpOutcomes == OpReturns \cup OpRaises

\* What a call of the wrapped operation can do, per operation: run_full_test and
\* gxm_measure_test return a result dictionary or raise.
OutcomesOf(op) ==
    CASE op = "run_full_test"    -> {"ok", "IPXModbusError"}
      [] op = "gxm_measure_test" -> {"ok", "IPXNoResponseError", "ValueError"}
      [] OTHER                   -> OpOutcomes

\* What the operator types at a prompt: 1, 2 or 3 (anything else asks again).
Answers == {"retry", "skip", "abort"}

\* prompt_user_on_other_failure / prompt_user_on_cal_failure: the answers 1 and
\* 2 are returned as "retry" and "skip"; the answer 3 raises UserAbortError
\* from inside the prompt.
PromptReturns(answer) == answer \in {"retry", "skip"}
PromptRaises(answer)  == IF answer = "abort" THEN "UserAbortError" ELSE "none"

Event(ev, val) == [ev |-> ev, val |-> val]

Calls(trace)   == {i \in 1..Len(trace) : trace[i].ev = "call"}
Prompts(trace) == {i \in 1..Len(trace) : trace[i].ev = "prompt"}
NumCalls(trace) == Cardinality(Calls(trace))

\* retry_on_failure: a result that is False or None is a failure.
IsFailedResult(v) == v = "False" \/ v = "None"

\* AfterDecision with the abort branch looping like the retry branch.
AfterDecision_AbortContinues(choice) ==
    CASE choice = "retry" -> "call"
      [] choice = "skip"  -> "returned"
      [] choice = "abort" -> "call"
      [] OTHER            -> "raised"

\* Where the combinators go after a decision: `continue`, `return`, `raise`.
AfterDecision(choice) ==
    CASE choice = "retry" -> "call"
      [] choice = "skip"  -> "returned"
      [] choice = "abort" -> "raised"
      [] OTHER            -> "raised"

\* ExceptionDispatch with every Exception treated as handled.
ExceptionDispatch_CatchAll(e, H) ==
    IF CaughtByExceptException(e) THEN "prompt" ELSE "propagate"

\* retry_on_exception's dispatch of an exception raised by operation_func:
\* the `except handled_exceptions` clause, else the `except Exception: raise e`
\* clause, else (a BaseException) no clause at all.
ExceptionDispatch(e, H) ==
    IF ExceptMatches(e, H) THEN "prompt"
    ELSE IF CaughtByExceptException(e) THEN "reraise"
    ELSE "propagate"

\* The `skip` branch of retry_on_exception executes `return result`: the local
\* was never bound when the operation raised, so the read raises.
SkipReturn(result) ==
    IF result = "UNBOUND" THEN [pc |-> "raised", ret |-> "none", exc |-> "UnboundLocalError"]
    ELSE [pc |-> "returned", ret |-> result, exc |-> "none"]

\* One pass through `result = operation_func(*args, **kwargs)` and what follows
\* it up to the next prompt, return or raise.
R_Call ==
    /\ r_pc = "call"
    /\ NumCalls(r_trace) < MaxCalls
    /\ \E out \in OutcomesOf(r_op) :
         /\ r_trace' = Append(r_trace, Event("call", out))
         /\ IF r_flavor = "failure"
            THEN \* retry_on_failure has no try block: an exception leaves it
                 IF out \in ExcClasses
                 THEN /\ r_pc' = "raised" /\ r_exc' = out
                      /\ UNCHANGED <<r_result, r_ret>>
                 ELSE /\ r_result' = out
                      /\ IF IsFailedResult(out)
                         THEN r_pc' = "prompt" /\ UNCHANGED <<r_ret, r_exc>>
                         ELSE r_pc' = "returned" /\ r_ret' = out /\ UNCHANGED r_exc
            ELSE IF out \notin ExcClasses
                 THEN /\ r_result' = out /\ r_pc' = "returned" /\ r_ret' = out
                      /\ UNCHANGED r_exc
                 ELSE /\ UNCHANGED <<r_result, r_ret>>
                      /\ IF ExceptionDispatch(out, r_handled) = "prompt"
                         THEN r_pc' = "prompt" /\ UNCHANGED r_exc
                         ELSE r_pc' = "raised" /\ r_exc' = out
    /\ UNCHANGED <<r_flavor, r_op, r_handled, r_promptfn>>

\* The operator answers the prompt and the combinator acts on the decision.
\* prompt_user_on_other_failure raises on "abort" by itself; a prompt_func that
\* returns "abort" reaches the combinator's own `raise UserAbortError`.
R_Prompt ==
    /\ r_pc = "prompt"
    /\ \E answer \in Answers :
         LET interactive == r_flavor = "exception" \/ r_promptfn = "prompt_user_on_other_failure"
         IN
         /\ r_trace' = Append(r_trace, Event("prompt", answer))
         /\ IF interactive /\ PromptRaises(answer) # "none"
            THEN /\ r_pc' = "raised" /\ r_exc' = PromptRaises(answer)
                 /\ UNCHANGED r_ret
            ELSE IF answer = "abort"
            THEN /\ r_pc' = AfterDecision(answer) /\ r_exc' = "UserAbortError"
                 /\ UNCHANGED r_ret
            ELSE IF answer = "retry"
            THEN /\ r_pc' = AfterDecision(answer)
                 /\ UNCHANGED <<r_ret, r_exc>>
            ELSE IF r_flavor = "failure"
            THEN /\ r_pc' = AfterDecision(answer) /\ r_ret' = "None"
                 /\ UNCHANGED r_exc
            ELSE /\ r_pc'  = SkipReturn(r_result).pc
                 /\ r_ret' = SkipReturn(r_result).ret
                 /\ r_exc' = SkipReturn(r_result).exc
    /\ UNCHANGED <<r_flavor, r_op, r_handled, r_promptfn, r_result>>

\* A combinator call as it starts.
R_Start(flavor, op, handled, promptfn) ==
    /\ r_flavor = flavor
    /\ r_op = op
    /\ r_handled = handled
    /\ r_promptfn = promptfn
    /\ r_pc = "call"
    /\ r_result = "UNBOUND"
    /\ r_ret = "none"
    /\ r_exc = "none"
    /\ r_trace = <<>>

(***************************************************************************)
(* IPX_workflows.py: _run_calibration_loop.                                *)
(***************************************************************************)
\* uids_list: the UIDs 101, 102, ...
UidsList == [i \in 1..NumUids |-> 100 + i]

\* `if counter < 3`: attempts below this count are retried without a prompt.
AutoRetryBudget == 3

\* What the device does during one attempt:
\*   cal    calibrate(uid): no response, no record parsed, records all non-zero,
\*          or some record with mean == 0 or std_dev == 0
\*   raw    get_raw(uid): a sample, or no response
\*   mag    abnormal_high_magnitude_check on the (first) sample: passes, finds
\*          an outlier, or finds a zero MAD
\*   frozen raw_data_check's no-change verdict on the consecutive samples
DeviceBehaviours ==
    [cal : {"noresp", "empty", "valid", "zero"}, raw : {"ok", "noresp"},
     mag : {"pass", "outlier", "zeroMAD"}, frozen : BOOLEAN]

NoAttempt == [cal |-> "none", raw |-> "none", mag |-> "none", frozen |-> FALSE]

\* validate_calibration_results, on the kind of records calibrate returned.
ValidateKind(cal) ==
    CASE cal = "valid" -> [ok |-> TRUE,  failed |-> "None"]
      [] cal = "zero"  -> [ok |-> FALSE, failed |-> "list"]
      [] OTHER         -> [ok |-> FALSE, failed |-> "None"]

\* raw_data_check on the device's samples: "True", "False", or the exception
\* that leaves it.
RawDataCheckKind(dev, sensor_index) ==
    IF dev.raw = "noresp" THEN "IPXNoResponseError"
    ELSE IF dev.mag = "zeroMAD" THEN "CALIBRATION_CHECK_ERROR"
    ELSE IF dev.mag = "outlier" THEN "False"
    ELSE IF sensor_index = "None" THEN "TypeError"
    ELSE IF dev.frozen THEN "False"
    ELSE "True"

\* The body of the try block up to the first prompt: "success" (break),
\* "retry" (continue), a prompt inside the try block, or the exception raised.
AttemptOutcome(dev, counter) ==
    IF dev.cal = "noresp" THEN "IPXNoResponseError"
    ELSE IF ValidateKind(dev.cal).ok
    THEN IF dev.raw = "noresp" THEN "IPXNoResponseError"
         ELSE IF dev.mag = "zeroMAD" THEN "CALIBRATION_CHECK_ERROR"
         ELSE IF dev.mag = "outlier"
         THEN IF counter < AutoRetryBudget THEN "retry" ELSE "prompt_mag"
         ELSE "success"
    ELSE LET result2 == RawDataCheckKind(dev, ValidateKind(dev.cal).failed)
         IN  IF result2 = "True" THEN "success"
             ELSE IF result2 = "False"
             THEN IF counter < AutoRetryBudget THEN "retry" ELSE "prompt_stuck"
             ELSE result2

\* The `except Exception as e` clause around the try block.
CalLoopCatches(e) == CaughtByExceptException(e)

\* `break` replaced by `continue` in the skip branches: the while loop goes
\* on with the same UID.
Cal_NextUid_SkipContinues(status) ==
    IF status = "skipped"
    THEN /\ c_pc' = "attempt"
         /\ UNCHANGED <<c_status, c_idx, c_counter, c_fails, c_exc>>
    ELSE /\ c_status' = [c_status EXCEPT ![c_idx] = status]
         /\ c_idx' = c_idx + 1
         /\ c_counter' = 0
         /\ c_fails' = 0
         /\ c_pc' = IF c_idx + 1 > Len(UidsList) THEN "returned" ELSE "attempt"
         /\ UNCHANGED c_exc

\* `break`: the for loop takes the next UID (counter = 0) or ends (return True).
Cal_NextUid(status) ==
    /\ c_status' = [c_status EXCEPT ![c_idx] = status]
    /\ c_idx' = c_idx + 1
    /\ c_counter' = 0
    /\ c_fails' = 0
    /\ c_pc' = IF c_idx + 1 > Len(UidsList) THEN "returned" ELSE "attempt"
    /\ UNCHANGED c_exc

\* An exception raised inside the try block.
Cal_RaisedInTry(e) ==
    IF CalLoopCatches(e)
    THEN c_pc' = "prompt_exc" /\ UNCHANGED <<c_exc, c_idx, c_status>>
    ELSE c_pc' = "raised" /\ c_exc' = e /\ UNCHANGED <<c_idx, c_status>>

Cal_Ghost(isAttempt, isPromptShown, answeredAbort) ==
    /\ c_attempts' = c_attempts + (IF isAttempt THEN 1 ELSE 0)
    /\ c_aborted' = (c_aborted \/ answeredAbort)
    /\ c_afterAbort' = c_afterAbort +
          (IF c_aborted /\ (isAttempt \/ isPromptShown) THEN 1 ELSE 0)

\* One iteration of `while True` up to a prompt, a continue or a break.
Cal_Attempt ==
    /\ c_pc = "attempt"
    /\ c_attempts < MaxAttempts
    /\ \E dev \in DeviceBehaviours :
         LET counter == c_counter + 1
             out == AttemptOutcome(dev, counter)
         IN
         /\ c_last' = dev
         /\ c_answer' = "none"
         /\ c_cmds' = [c_cmds EXCEPT ![c_idx] = @ + 1]
         /\ Cal_Ghost(TRUE, out \in {"prompt_mag", "prompt_stuck"}
                              \/ (out \in ExcClasses /\ CalLoopCatches(out)), FALSE)
         /\ IF out = "success"
            THEN Cal_NextUid("calibrated")
            ELSE /\ c_counter' = counter
                 /\ c_fails' = c_fails + 1
                 /\ IF out = "retry"
                    THEN c_pc' = "attempt" /\ UNCHANGED <<c_exc, c_idx, c_status>>
                    ELSE IF out \in {"prompt_mag", "prompt_stuck"}
                    THEN c_pc' = out /\ UNCHANGED <<c_exc, c_idx, c_status>>
                    ELSE Cal_RaisedInTry(out)

\* The operator answers the prompt of the magnitude branch (inside the try).
Cal_PromptMag ==
    /\ c_pc = "prompt_mag"
    /\ \E answer \in Answers :
         /\ UNCHANGED <<c_last, c_cmds>>
         /\ c_answer' = answer
         /\ IF PromptRaises(answer) # "none"
            THEN /\ Cal_Ghost(FALSE, CalLoopCatches(PromptRaises(answer)), answer = "abort")
                 /\ Cal_RaisedInTry(PromptRaises(answer))
                 /\ UNCHANGED <<c_counter, c_fails>>
            ELSE IF answer = "retry"
            THEN /\ Cal_Ghost(FALSE, FALSE, FALSE)
                 /\ c_counter' = 0
                 /\ c_pc' = "attempt"
                 /\ UNCHANGED <<c_exc, c_idx, c_status, c_fails>>
            ELSE /\ Cal_Ghost(FALSE, FALSE, FALSE)
                 /\ Cal_NextUid("skipped")

\* The stuck-sensor prompt with `counter = 0` before its `continue`.
Cal_PromptStuck_ResetsCounter ==
    /\ c_pc = "prompt_stuck"
    /\ \E answer \in Answers :
         /\ UNCHANGED <<c_last, c_cmds>>
         /\ c_answer' = answer
         /\ IF PromptRaises(answer) # "none"
            THEN /\ Cal_Ghost(FALSE, CalLoopCatches(PromptRaises(answer)), answer = "abort")
                 /\ Cal_RaisedInTry(PromptRaises(answer))
                 /\ UNCHANGED <<c_counter, c_fails>>
            ELSE IF answer = "retry"
            THEN /\ Cal_Ghost(FALSE, FALSE, FALSE)
                 /\ c_counter' = 0
                 /\ c_pc' = "attempt"
                 /\ UNCHANGED <<c_exc, c_idx, c_status, c_fails>>
            ELSE /\ Cal_Ghost(FALSE, FALSE, FALSE)
                 /\ Cal_NextUid("skipped")

\* The operator answers the prompt of the stuck-sensor branch (inside the try).
Cal_PromptStuck ==
    /\ c_pc = "prompt_stuck"
    /\ \E answer \in Answers :
         /\ UNCHANGED <<c_last, c_cmds>>
         /\ c_answer' = answer
         /\ IF PromptRaises(answer) # "none"
            THEN /\ Cal_Ghost(FALSE, CalLoopCatches(PromptRaises(answer)), answer = "abort")
                 /\ Cal_RaisedInTry(PromptRaises(answer))
                 /\ UNCHANGED <<c_counter, c_fails>>
            ELSE IF answer = "retry"
            THEN /\ Cal_Ghost(FALSE, FALSE, FALSE)
                 /\ c_pc' = "attempt"
                 /\ UNCHANGED <<c_exc, c_idx, c_status, c_counter, c_fails>>
            ELSE /\ Cal_Ghost(FALSE, FALSE, FALSE)
                 /\ Cal_NextUid("skipped")

\* The operator answers the prompt of the except clause: an exception raised
\* there (the prompt's UserAbortError) leaves the loop.
Cal_PromptExc ==
    /\ c_pc = "prompt_exc"
    /\ \E answer \in Answers :
         /\ UNCHANGED <<c_last, c_cmds>>
         /\ c_answer' = answer
         /\ IF PromptRaises(answer) # "none"
            THEN /\ Cal_Ghost(FALSE, FALSE, answer = "abort")
                 /\ c_pc' = "raised" /\ c_exc' = PromptRaises(answer)
                 /\ UNCHANGED <<c_idx, c_status, c_counter, c_fails>>
            ELSE IF answer = "retry"
            THEN /\ Cal_Ghost(FALSE, FALSE, FALSE)
                 /\ c_pc' = "attempt"
                 /\ UNCHANGED <<c_exc, c_idx, c_status, c_counter, c_fails>>
            ELSE /\ Cal_Ghost(FALSE, FALSE, FALSE)
                 /\ Cal_NextUid("skipped")

\* The loop as it starts on the first UID.
Cal_Start ==
    /\ c_pc = "attempt"
    /\ c_idx = 1
    /\ c_counter = 0
    /\ c_exc = "none"
    /\ c_status = [i \in 1..NumUids |-> "pending"]
    /\ c_last = NoAttempt
    /\ c_attempts = 0
    /\ c_fails = 0
    /\ c_aborted = FALSE
    /\ c_afterAbort = 0
    /\ c_answer = "none"
    /\ c_cmds = [i \in 1..NumUids |-> 0]

\* The loop not running.
Cal_Idle ==
    /\ c_pc = "idle"
    /\ c_idx = 1
    /\ c_counter = 0
    /\ c_exc = "none"
    /\ c_status = [i \in 1..NumUids |-> "pending"]
    /\ c_last = NoAttempt
    /\ c_attempts = 0
    /\ c_fails = 0
    /\ c_aborted = FALSE
    /\ c_afterAbort = 0
    /\ c_answer = "none"
    /\ c_cmds = [i \in 1..NumUids |-> 0]

\* No combinator call in progress.
R_Idle ==
    /\ r_flavor = "exception"
    /\ r_op = "none"
    /\ r_handled = DefaultHandled
    /\ r_promptfn = "prompt_user_on_other_failure"
    /\ r_pc = "idle"
    /\ r_result = "UNBOUND"
    /\ r_ret = "none"
    /\ r_exc = "none"
    /\ r_trace = <<>>

(***************************************************************************)
(* IPX_workflows.py: the datalogger verification stage of                  *)
(* run_configuration_flow (_run_modbus_verification for extensometers,     *)
(* _run_geosense_verification for inserts) and the handlers around it.     *)
(***************************************************************************)
\* What a tester's __exit__ returns: IPXModbusTester returns self,
\* IPXGeosenseTester (like IPXSerialCommunicator) returns None.
TesterExitReturns(inserts) == IF inserts THEN "None" ELSE "self"

\* The with statement swallows the exception when __exit__ returns a true value.
ExitSuppresses(exitValue) == exitValue # "None" /\ exitValue # "False"

\* The except clauses of run_configuration_flow's inner try, in order:
\* UserAbortError is re-raised, everything else that is an Exception makes the
\* flow return False.
FlowHandlers(e) ==
    IF IsInstance(e, "UserAbortError") THEN [pc |-> "raised", ret |-> "none", exc |-> e]
    ELSE IF IsInstance(e, "IPXSerialError") \/ IsInstance(e, "RuntimeError")
    THEN [pc |-> "returned", ret |-> "False", exc |-> "none"]
    ELSE IF CaughtByExceptException(e)
    THEN [pc |-> "returned", ret |-> "False", exc |-> "none"]
    ELSE [pc |-> "raised", ret |-> "none", exc |-> e]

\* `_, datalogger_df, final_run_status = <value>` in run_configuration_flow:
\* the verification helpers return False or a 3-tuple.
UnpackThree(value) == IF value = "False" THEN "TypeError" ELSE "none"

\* The `except Exception` clause of a verification helper caught e: the
\* helper saves a failure report and returns False, which the flow cannot
\* unpack.
Flow_HelperReturnsFalse ==
    /\ f_report' = IF f_inserts THEN "Geosense Measurement Failed" ELSE "Modbus Test Failed"
    /\ f_pc'  = FlowHandlers(UnpackThree("False")).pc
    /\ f_ret' = FlowHandlers(UnpackThree("False")).ret
    /\ f_exc' = FlowHandlers(UnpackThree("False")).exc

\* An exception leaves a verification helper uncaught and meets the flow's
\* handlers.
Flow_HelperRaises(e) ==
    /\ f_pc'  = FlowHandlers(e).pc
    /\ f_ret' = FlowHandlers(e).ret
    /\ f_exc' = FlowHandlers(e).exc
    /\ UNCHANGED f_report

\* `with Tester(...) as tester`: __enter__ connects, or fails to.
F_Enter ==
    /\ f_pc = "enter"
    /\ \E connected \in BOOLEAN :
         IF connected
         THEN /\ f_open' = TRUE /\ f_pc' = "loop"
              /\ UNCHANGED <<f_ret, f_exc, f_report>>
         ELSE \* IPXModbusError / SerialException out of __enter__: no __exit__
              /\ UNCHANGED f_open
              /\ Flow_HelperReturnsFalse
    /\ UNCHANGED <<f_inserts, f_idx, f_record, f_aborted, f_suppressed>>
    /\ UNCHANGED <<rvars, cvars, lvars, mvars, vvars, kvars, wvars, dvars, tvars, gvars, pvars, uvars>>

\* The for loop takes the next sensor and calls retry_on_exception on its test.
F_StartTest ==
    /\ f_pc = "loop"
    /\ f_idx <= NumUids
    /\ f_pc' = "inretry"
    /\ r_flavor' = "exception"
    /\ r_op' = IF f_inserts THEN "gxm_measure_test" ELSE "run_full_test"
    /\ r_handled' = DefaultHandled
    /\ r_promptfn' = "prompt_user_on_other_failure"
    /\ r_pc' = "call"
    /\ r_result' = "UNBOUND"
    /\ r_ret' = "none"
    /\ r_exc' = "none"
    /\ r_trace' = <<>>
    /\ UNCHANGED <<f_inserts, f_idx, f_record, f_open, f_ret, f_exc, f_report,
                   f_aborted, f_suppressed>>
    /\ UNCHANGED <<cvars, lvars, mvars, vvars, kvars, wvars, dvars, tvars, gvars, pvars, uvars>>

\* retry_on_exception returned the test's result: it is recorded.
F_TestDone ==
    /\ f_pc = "inretry"
    /\ r_pc = "returned"
    /\ f_record' = f_record + 1
    /\ f_idx' = f_idx + 1
    /\ f_pc' = "loop"
    /\ r_pc' = "idle"
    /\ UNCHANGED <<f_inserts, f_open, f_ret, f_exc, f_report, f_aborted, f_suppressed>>
    /\ UNCHANGED <<r_flavor, r_op, r_handled, r_promptfn, r_result, r_ret, r_exc, r_trace>>
    /\ UNCHANGED <<cvars, lvars, mvars, vvars, kvars, wvars, dvars, tvars, gvars, pvars, uvars>>

\* retry_on_exception raised: the exception leaves the with block through the
\* tester's __exit__, which closes the connection, and is then swallowed by
\* the with statement, or caught by the helper's `except Exception`, or left
\* to the flow's handlers.
F_TestRaised ==
    /\ f_pc = "inretry"
    /\ r_pc = "raised"
    /\ r_pc' = "idle"
    /\ f_open' = FALSE
    /\ f_aborted' = (f_aborted \/ r_trace[Len(r_trace)] = Event("prompt", "abort"))
    /\ IF ExitSuppresses(TesterExitReturns(f_inserts))
       THEN /\ f_suppressed' = TRUE
            /\ f_pc' = "analysis"
            /\ UNCHANGED <<f_ret, f_exc, f_report>>
       ELSE /\ UNCHANGED f_suppressed
            /\ IF CaughtByExceptException(r_exc)
               THEN Flow_HelperReturnsFalse
               ELSE Flow_HelperRaises(r_exc)
    /\ UNCHANGED <<f_inserts, f_idx, f_record>>
    /\ UNCHANGED <<r_flavor, r_op, r_handled, r_promptfn, r_result, r_ret, r_exc, r_trace>>
    /\ UNCHANGED <<cvars, lvars, mvars, vvars, kvars, wvars, dvars, tvars, gvars, pvars, uvars>>

\* The for loop is exhausted: the with block ends normally.
F_LoopEnd ==
    /\ f_pc = "loop"
    /\ f_idx > NumUids
    /\ f_open' = FALSE
    /\ f_pc' = "analysis"
    /\ UNCHANGED <<f_inserts, f_idx, f_record, f_ret, f_exc, f_report, f_aborted,
                   f_suppressed>>
    /\ UNCHANGED <<rvars, cvars, lvars, mvars, vvars, kvars, wvars, dvars, tvars, gvars, pvars, uvars>>

\* After the with block: the record becomes a DataFrame whose pass column is
\* read (a KeyError when nothing was recorded), the summary is shown, the
\* helper returns its 3-tuple and the flow saves the reports and returns True.
F_Analysis ==
    /\ f_pc = "analysis"
    /\ IF f_record = 0
       THEN Flow_HelperRaises("KeyError")
       ELSE /\ f_report' = "final_run_status"
            /\ f_pc' = "returned" /\ f_ret' = "True"
            /\ UNCHANGED f_exc
    /\ UNCHANGED <<f_inserts, f_idx, f_record, f_open, f_aborted, f_suppressed>>
    /\ UNCHANGED <<rvars, cvars, lvars, mvars, vvars, kvars, wvars, dvars, tvars, gvars, pvars, uvars>>

\* The stage as it is entered (line 806 of run_configuration_flow).
Flow_Start(inserts) ==
    /\ f_pc = "enter"
    /\ f_inserts = inserts
    /\ f_idx = 1
    /\ f_record = 0
    /\ f_open = FALSE
    /\ f_ret = "none"
    /\ f_exc = "none"
    /\ f_report = "none"
    /\ f_aborted = FALSE
    /\ f_suppressed = FALSE

\* The stage not running.
Flow_Idle ==
    /\ f_pc = "idle"
    /\ f_inserts = FALSE
    /\ f_idx = 1
    /\ f_record = 0
    /\ f_open = FALSE
    /\ f_ret = "none"
    /\ f_exc = "none"
    /\ f_report = "none"
    /\ f_aborted = FALSE
    /\ f_suppressed = FALSE

(***************************************************************************)
(* IPX.py: IPXSerialCommunicator._send_and_receive_listen.                  *)
(***************************************************************************)
\* The bytes of the model: "a" an ASCII letter, "T" the terminator text, "n"
\* the newline 0x0A, "L" the lead byte of a two-byte UTF-8 sequence and "C" a
\* UTF-8 continuation byte.
Bytes == {"a", "T", "n", "L", "C"}

RECURSIVE DecodeUtf8(_)
\* bytes.decode('utf-8'): the text ("E" is the character encoded by L C), or
\* a UnicodeDecodeError: a lead byte without its continuation byte, or a
\* continuation byte without a lead byte.
DecodeUtf8(bs) ==
    IF bs = <<>> THEN [ok |-> TRUE, text |-> <<>>]
    ELSE IF Head(bs) = "C" THEN [ok |-> FALSE, text |-> <<>>]
    ELSE IF Head(bs) = "L"
    THEN IF Len(bs) >= 2 /\ bs[2] = "C"
         THEN LET rest == DecodeUtf8(SubSeq(bs, 3, Len(bs)))
              IN  [ok |-> rest.ok, text |-> <<"E">> \o rest.text]
         ELSE [ok |-> FALSE, text |-> <<>>]
    ELSE LET rest == DecodeUtf8(Tail(bs))
         IN  [ok |-> rest.ok, text |-> <<Head(bs)>> \o rest.text]

RECURSIVE EncodeUtf8(_)
\* str.encode('utf-8').
EncodeUtf8(text) ==
    IF text = <<>> THEN <<>>
    ELSE IF Head(text) = "E" THEN <<"L", "C">> \o EncodeUtf8(Tail(text))
    ELSE <<Head(text)>> \o EncodeUtf8(Tail(text))

\* Position of the last newline of the text, 0 when it has none.
LastNewline(text) ==
    LET nl == {i \in 1..Len(text) : text[i] = "n"}
    IN  IF nl = {} THEN 0 ELSE CHOOSE i \in nl : \A j \in nl : j <= i

\* decoded_text.split("\n") with the unfinished last line popped: the text
\* of the complete lines, and the partial line kept for the next iteration.
CompleteLines(text) == SubSeq(text, 1, LastNewline(text))

\* The unfinished line is dropped instead of kept.
PartialLine_Dropped(text) == <<>>

PartialLine(text) == SubSeq(text, LastNewline(text) + 1, Len(text))

\* Only the last complete line of the iteration is searched.
TerminatorSeen_LastLineOnly(text, term) ==
    /\ term # "None"
    /\ LET lines == CompleteLines(text)
           body == SubSeq(lines, 1, Len(lines) - 1)
       IN  \E i \in (LastNewline(body) + 1)..Len(body) : body[i] = term

\* `stop_on_string and stop_on_string in line` for some complete line.
TerminatorSeen(text, term) ==
    /\ term # "None"
    /\ \E i \in 1..Len(CompleteLines(text)) : CompleteLines(text)[i] = term

\* The channel operations of lines 134-141 with the connection check placed
\* after reset_input_buffer().
SendOps_ResetBeforeCheck(conn) ==
    IF ~conn THEN {"reset"} ELSE {"reset", "write"}

\* The channel operations of lines 134-141: none when `not self.connection`
\* (the function raises first), else reset_input_buffer() and write(command).
SendOps(conn) ==
    IF ~conn THEN {} ELSE {"reset", "write"}

\* FirstRead without the timeout error: the empty read is handed back.
FirstRead_ReturnsEmpty(first) ==
    IF first = <<>>
    THEN [pc |-> "returned", exc |-> "none", first |-> "timeout"]
    ELSE [pc |-> "loop", exc |-> "none", first |-> "byte"]

\* `first_byte = self.connection.read(1)` and the check that follows it.
FirstRead(first) ==
    IF first = <<>>
    THEN [pc |-> "raised", exc |-> "IPXNoResponseError", first |-> "timeout"]
    ELSE [pc |-> "loop", exc |-> "none", first |-> "byte"]

\* The chunk replaces what was read before instead of extending it.
Accumulate_Replace(all, chunk) == chunk

\* `all_responses.extend(chunk)`.
Accumulate(all, chunk) == all \o chunk

\* The decode failure is raised to the caller as corrupted data.
OnDecodeError_Raise(buf) ==
    [pc |-> "raised", exc |-> "IPXCorruptedDataError", dbuf |-> buf]

\* `except UnicodeDecodeError: continue`: the buffer is kept, the loop goes on.
OnDecodeError(buf) ==
    [pc |-> "loop", exc |-> "none", dbuf |-> buf]

\* The listen duration never counts as exceeded.
ListenExpired_Never(idle) == FALSE

\* The comparison with `>=` in place of `>`.
ListenExpired_AtOrAfter(idle) == idle >= ListenTicks

\* `time.time() - start_time > listen_duration`.
ListenExpired(idle) == idle > ListenTicks

\* The end of an iteration without the stop_reading_now test.
LoopExit_TimeoutOnly(stop_reading_now, idle) ==
    IF ListenExpired(idle) THEN "break" ELSE "sleep"

\* The end of an iteration: `if stop_reading_now == True: break`, `elif` the
\* listen duration is exceeded `break`, else sleep and iterate again.
LoopExit(stop_reading_now, idle) ==
    IF stop_reading_now THEN "break"
    ELSE IF ListenExpired(idle) THEN "break"
    ELSE "sleep"

\* The end of the function: `if response: ... return response`, else raise.
FinalCheck(response) ==
    IF response # <<>>
    THEN [pc |-> "returned", exc |-> "none"]
    ELSE [pc |-> "raised", exc |-> "IPXNoResponseError"]

\* The connection check, reset_input_buffer() and write(command).
L_Send ==
    /\ l_pc = "start"
    /\ l_ops' = l_ops \cup SendOps(l_conn)
    /\ IF ~l_conn
       THEN /\ l_pc' = "raised" /\ l_exc' = "IPXSerialError"
       ELSE /\ l_pc' = "wait_first"
            /\ UNCHANGED l_exc
    /\ l_inwaiting' = IF "reset" \in SendOps(l_conn) THEN <<>> ELSE l_inwaiting
    /\ UNCHANGED <<l_conn, l_term, l_sent, l_first, l_all, l_dbuf, l_idle, l_ret,
                   l_read, l_decfail>>

\* The device sends one more byte.
L_Arrive ==
    /\ l_pc \in {"wait_first", "loop"}
    /\ Len(l_sent) < MaxStream
    /\ \E b \in Bytes :
         /\ l_sent' = Append(l_sent, b)
         /\ l_inwaiting' = Append(l_inwaiting, b)
    /\ UNCHANGED <<l_pc, l_conn, l_term, l_first, l_all, l_dbuf, l_idle, l_ret, l_exc,
                   l_ops, l_read, l_decfail>>

\* read(1) returns: with the first byte, or empty after the read timeout.
L_FirstByte ==
    /\ l_pc = "wait_first"
    /\ LET first == IF l_inwaiting = <<>> THEN <<>> ELSE <<Head(l_inwaiting)>>
           r == FirstRead(first)
       IN
       /\ l_pc' = r.pc
       /\ l_exc' = r.exc
       /\ l_first' = r.first
       /\ l_inwaiting' = IF l_inwaiting = <<>> THEN <<>> ELSE Tail(l_inwaiting)
       /\ l_all' = first
       /\ l_dbuf' = first
       /\ l_idle' = 0
       /\ l_ret' = l_ret
       /\ l_ops' = l_ops \cup {"read"}
       /\ l_read' = l_read \o first
    /\ UNCHANGED <<l_conn, l_term, l_sent, l_decfail>>

\* The clock advances while the loop runs.
L_Tick ==
    /\ l_pc = "loop"
    /\ l_idle <= ListenTicks
    /\ l_idle' = l_idle + 1
    /\ UNCHANGED <<l_pc, l_conn, l_term, l_sent, l_inwaiting, l_first, l_all, l_dbuf,
                   l_ret, l_exc, l_ops, l_read, l_decfail>>

\* One iteration of the accumulation loop that reads a chunk or ends the read
\* (an iteration that finds nothing waiting before the listen duration is
\* exceeded only sleeps and changes nothing).
L_Iterate ==
    /\ l_pc = "loop"
    /\ l_inwaiting # <<>> \/ LoopExit(FALSE, l_idle) = "break"
    /\ IF l_inwaiting # <<>>
       THEN LET chunk == l_inwaiting
                all == Accumulate(l_all, chunk)
                buf == l_dbuf \o chunk
                dec == DecodeUtf8(buf)
                stop_reading_now == dec.ok /\ TerminatorSeen(dec.text, l_term)
            IN
            /\ l_inwaiting' = <<>>
            /\ l_ops' = l_ops \cup {"read"}
            /\ l_read' = l_read \o chunk
            /\ l_all' = all
            /\ l_idle' = 0      \* start_time = time.time()
            /\ IF ~dec.ok
               THEN \* UnicodeDecodeError
                    /\ l_dbuf' = OnDecodeError(buf).dbuf
                    /\ l_pc' = OnDecodeError(buf).pc
                    /\ l_exc' = OnDecodeError(buf).exc
                    /\ l_decfail' = TRUE
                    /\ UNCHANGED l_ret
               ELSE /\ l_dbuf' = EncodeUtf8(PartialLine(dec.text))
                    /\ l_decfail' = l_decfail
                    /\ IF LoopExit(stop_reading_now, 0) = "break"
                       THEN /\ l_pc' = FinalCheck(all).pc
                            /\ l_exc' = FinalCheck(all).exc
                            /\ l_ret' = all
                       ELSE UNCHANGED <<l_pc, l_ret, l_exc>>
       ELSE \* nothing waiting and the listen duration is exceeded
            /\ l_pc' = FinalCheck(l_all).pc
            /\ l_exc' = FinalCheck(l_all).exc
            /\ l_ret' = l_all
            /\ UNCHANGED <<l_inwaiting, l_all, l_dbuf, l_idle, l_ops, l_read, l_decfail>>
    /\ UNCHANGED <<l_conn, l_term, l_sent, l_first>>

\* Input left in the port's buffer by earlier traffic when the call starts.
StaleInputs == {<<>>, <<"a">>}

\* A call as it starts.
Listen_Start(conn, term, stale) ==
    /\ l_pc = "start"
    /\ l_conn = conn
    /\ l_term = term
    /\ l_sent = <<>>
    /\ l_inwaiting = stale
    /\ l_first = "none"
    /\ l_all = <<>>
    /\ l_dbuf = <<>>
    /\ l_idle = 0
    /\ l_ret = <<>>
    /\ l_exc = "none"
    /\ l_ops = {}
    /\ l_read = <<>>
    /\ l_decfail = FALSE

\* No call in progress.
Listen_Idle ==
    /\ l_pc = "idle"
    /\ l_conn = FALSE
    /\ l_term = "None"
    /\ l_sent = <<>>
    /\ l_inwaiting = <<>>
    /\ l_first = "none"
    /\ l_all = <<>>
    /\ l_dbuf = <<>>
    /\ l_idle = 0
    /\ l_ret = <<>>
    /\ l_exc = "none"
    /\ l_ops = {}
    /\ l_read = <<>>
    /\ l_decfail = FALSE

(***************************************************************************)
(* IPX.py: the per-device operations of IPXSerialCommunicator. The port is *)
(* open; _send_and_receive_listen is taken by its outcome: it returns a    *)
(* non-empty frame or raises IPXNoResponseError.                           *)
(***************************************************************************)
Setters ==
    {"set_baud", "set_uid", "set_axis", "set_gain", "set_centroid_threshold",
     "set_centroid_res", "set_n_stds", "set_term", "set_alias"}

DeviceOps == Setters \cup {"calibrate", "get_status", "get_raw"}

\* allowed_types of each method; a setter has no data_type argument.
AllowedTypes(op) ==
    CASE op = "get_status" -> {"string", "bytes", "dict"}
      [] op = "get_raw"    -> {"string", "bytes", "list", "array"}
      [] op = "calibrate"  -> {"dataframe", "string"}
      [] OTHER             -> {"none"}

\* The data_type values the model passes: the allowed ones and one that is not.
DataTypeChoices(op) ==
    IF op \in Setters THEN {"none"} ELSE AllowedTypes(op) \cup {"json"}

\* The uid values the model passes: the broadcast address and a device UID.
UidChoices == {0, 7}

\* The value a setter is asked to set.
SetterArgs == {3}

\* IPXCommands.Responses: the confirmation phrase of each setter. A phrase is
\* two characters here, an upper-case and a lower-case one, and no two
\* setters share a phrase.
Responses(op) ==
    CASE op = "set_axis"               -> <<"U", "u">>
      [] op = "set_gain"               -> <<"U", "v">>
      [] op = "set_centroid_threshold" -> <<"U", "w">>
      [] op = "set_n_stds"             -> <<"V", "u">>
      [] op = "set_centroid_res"       -> <<"V", "v">>
      [] op = "set_term"               -> <<"V", "w">>
      [] op = "set_uid"                -> <<"W", "u">>
      [] op = "set_baud"               -> <<"W", "v">>
      [] op = "set_alias"              -> <<"W", "w">>
      [] OTHER                         -> <<>>

\* The expected_response each method passes to _decode_string_and_check: a
\* setter its phrase, the other methods the default "".
ExpectedResponse(op) == IF op \in Setters THEN Responses(op) ELSE <<>>

\* The bytes of a response: letters in both cases, the space and "C", a lone
\* UTF-8 continuation byte.
RespChars == {"U", "V", "W", "u", "v", "w", " ", "C"}

\* The frames _send_and_receive_listen can return: never empty.
RespBytes == UNION {[1..k -> RespChars] : k \in 1..MaxResp}

\* str.lower(), character by character.
LowerChar(ch) ==
    CASE ch = "U" -> "u"
      [] ch = "V" -> "v"
      [] ch = "W" -> "w"
      [] OTHER    -> ch

Lower(text) == [i \in 1..Len(text) |-> LowerChar(text[i])]

\* The characters str.strip() removes.
IsSpace(ch) == ch \in {" ", "n"}

RECURSIVE LStrip(_)
LStrip(text) ==
    IF text # <<>> /\ IsSpace(Head(text)) THEN LStrip(Tail(text)) ELSE text

RECURSIVE RStrip(_)
RStrip(text) ==
    IF text # <<>> /\ IsSpace(text[Len(text)])
    THEN RStrip(SubSeq(text, 1, Len(text) - 1))
    ELSE text

\* str.strip().
Strip(text) == RStrip(LStrip(text))

\* str.startswith(prefix).
StartsWith(text, prefix) ==
    Len(prefix) <= Len(text) /\ SubSeq(text, 1, Len(prefix)) = prefix

\* Commands.<op>.format(...): the command as its words, numbers through str().
FormatCommand(op, uid, arg) ==
    IF op \in Setters
    THEN IF op = "set_uid"
         THEN <<"op", "ipx", ToString(uid), op, "567892", ToString(arg), "\n">>
         ELSE <<"op", "ipx", ToString(uid), op, ToString(arg), "\n">>
    ELSE <<"op", "ipx", ToString(uid), op, "\n">>

NoMessage == [command |-> <<>>, expected |-> <<>>, actual |-> <<>>]

\* _decode_string_and_check with the two strings compared as they are.
DecodeStringAndCheck_CaseSensitive(verify, response, expected_response, command) ==
    LET dec == DecodeUtf8(response)
        response_str == Strip(dec.text)
    IN  IF ~dec.ok
        THEN [exc |-> "IPXCorruptedDataError", value |-> <<>>, msg |-> NoMessage]
        ELSE IF /\ verify
                /\ expected_response # <<>>
                /\ ~StartsWith(response_str, expected_response)
        THEN [exc |-> "IPXVerificationError", value |-> <<>>,
              msg |-> [command |-> command, expected |-> expected_response,
                       actual |-> response_str]]
        ELSE [exc |-> "none", value |-> response_str, msg |-> NoMessage]

\* _decode_string_and_check: decode and strip, then, when self.verify is set
\* and an expected response is given, compare the lower-cased texts.
DecodeStringAndCheck(verify, response, expected_response, command) ==
    LET dec == DecodeUtf8(response)
        response_str == Strip(dec.text)
    IN  IF ~dec.ok
        THEN [exc |-> "IPXCorruptedDataError", value |-> <<>>, msg |-> NoMessage]
        ELSE IF /\ verify
                /\ expected_response # <<>>
                /\ ~StartsWith(Lower(response_str), Lower(expected_response))
        THEN [exc |-> "IPXVerificationError", value |-> <<>>,
              msg |-> [command |-> command, expected |-> expected_response,
                       actual |-> response_str]]
        ELSE [exc |-> "none", value |-> response_str, msg |-> NoMessage]

\* The UID 0 test of get_status only.
UidZeroGuard_StatusOnly(op, uid) == op = "get_status" /\ uid = 0

\* `if uid == 0:` - the methods that have the test, and when it fires.
UidZeroGuard(op, uid) == op \in {"get_status", "get_raw"} /\ uid = 0

NoValue == [kind |-> "none", val |-> <<>>]

\* What a method returns from the frame and its decoded text. The parsing of
\* the text (status dictionary, raw list, calibration records) is not
\* followed here: the value is named by its kind and the text it comes from.
ReturnValue(op, dtype, response, response_str) ==
    IF op \in Setters THEN [kind |-> "string", val |-> response_str]
    ELSE IF dtype = "bytes" THEN [kind |-> "bytes", val |-> response]
    ELSE [kind |-> dtype, val |-> response_str]

\* The data_type check, the UID 0 test and the dispatch of the command.
M_Dispatch ==
    /\ m_pc = "call"
    /\ IF m_dtype \notin AllowedTypes(m_op)
       THEN /\ m_pc' = "raised" /\ m_exc' = "ValueError"
            /\ UNCHANGED <<m_wire, m_ret, m_warned>>
       ELSE IF UidZeroGuard(m_op, m_uid)
       THEN /\ m_warned' = TRUE
            /\ m_pc' = "returned"
            /\ m_ret' = [kind |-> "string", val |-> <<>>]
            /\ UNCHANGED <<m_wire, m_exc>>
       ELSE /\ m_wire' = Append(m_wire, FormatCommand(m_op, m_uid, m_arg))
            /\ m_pc' = "transport"
            /\ UNCHANGED <<m_ret, m_exc, m_warned>>
    /\ UNCHANGED <<m_op, m_uid, m_arg, m_dtype, m_verify, m_resp, m_msg>>

\* What _send_and_receive_listen can raise on an open port.
TransportRaises == {"IPXNoResponseError"}

\* _send_and_receive_listen comes back, then _decode_string_and_check and the
\* method's return. get_raw converts the text with int() before it looks at
\* data_type; whether the text is a list of integers is left open.
M_Receive ==
    /\ m_pc = "transport"
    /\ \/ \E e \in TransportRaises :
            /\ m_pc' = "raised" /\ m_exc' = e
            /\ UNCHANGED <<m_resp, m_ret, m_msg>>
       \/ \E response \in RespBytes, numeric \in BOOLEAN :
            LET r == DecodeStringAndCheck(m_verify, response, ExpectedResponse(m_op),
                                          m_wire[Len(m_wire)])
            IN  /\ m_resp' = response
                /\ m_op # "get_raw" => numeric
                /\ IF r.exc # "none"
                   THEN /\ m_pc' = "raised" /\ m_exc' = r.exc /\ m_msg' = r.msg
                        /\ UNCHANGED m_ret
                   ELSE IF ~numeric
                   THEN /\ m_pc' = "raised" /\ m_exc' = "ValueError"
                        /\ UNCHANGED <<m_ret, m_msg>>
                   ELSE /\ m_pc' = "returned"
                        /\ m_ret' = ReturnValue(m_op, m_dtype, response, r.value)
                        /\ UNCHANGED <<m_exc, m_msg>>
    /\ UNCHANGED <<m_op, m_uid, m_arg, m_dtype, m_verify, m_wire, m_warned>>

\* A method call as it starts.
Comm_Start(op, uid, arg, dtype, verify) ==
    /\ m_op = op
    /\ m_uid = uid
    /\ m_arg = arg
    /\ m_dtype = dtype
    /\ m_verify = verify
    /\ m_pc = "call"
    /\ m_wire = <<>>
    /\ m_resp = <<>>
    /\ m_ret = NoValue
    /\ m_exc = "none"
    /\ m_msg = NoMessage
    /\ m_warned = FALSE

\* No method call in progress.
Comm_Idle ==
    /\ m_op = "none"
    /\ m_uid = 0
    /\ m_arg = 0
    /\ m_dtype = "none"
    /\ m_verify = FALSE
    /\ m_pc = "idle"
    /\ m_wire = <<>>
    /\ m_resp = <<>>
    /\ m_ret = NoValue
    /\ m_exc = "none"
    /\ m_msg = NoMessage
    /\ m_warned = FALSE

(***************************************************************************)
(* IPX.py: IPXConfigurator.validate_calibration_results.                   *)
(***************************************************************************)
\* The rows calibrate() parses out of the device's report: the regular
\* expression admits a signed mean and an unsigned standard deviation.
CalRecords ==
    [sensor_num : {1, 2}, mean : {-4, 0, 9}, std_dev : {0, 2}, axis : {1, 2}]

\* The DataFrames the model passes, the empty one included.
CalFrames == UNION {[1..k -> CalRecords] : k \in 0..MaxRecords}

\* Python's None and a list, as the second element of the returned tuple.
PyNone == [none |-> TRUE, list |-> <<>>]
PyList(l) == [none |-> FALSE, list |-> l]

RECURSIVE SortedSeq(_)
\* The numbers of a set in ascending order (np.unique sorts).
SortedSeq(S) ==
    IF S = {} THEN <<>>
    ELSE LET least == CHOOSE x \in S : \A y \in S : x <= y
         IN  <<least>> \o SortedSeq(S \ {least})

\* The row test `(mean == 0) | (std_dev == 0)` with `&` in place of `|`.
RowFailed_Both(row) == row.mean = 0 /\ row.std_dev = 0

\* `(cal_df['mean'] == 0) | (cal_df['std_dev'] == 0)` for one row.
RowFailed(row) == row.mean = 0 \/ row.std_dev = 0

\* validate_calibration_results with `list(failed_df['sensor_num'])`: the
\* failing rows' sensor numbers in row order, np.unique left out.
ValidateCalibrationResults_RowOrder(cal_df) ==
    IF cal_df = <<>>
    THEN [ok |-> FALSE, data |-> PyNone]
    ELSE LET failed_df == SelectSeq(cal_df, RowFailed)
             failed_sensor_nums ==
                 [i \in 1..Len(failed_df) |-> failed_df[i].sensor_num]
         IN  IF failed_df # <<>>
             THEN [ok |-> FALSE, data |-> PyList(failed_sensor_nums)]
             ELSE [ok |-> TRUE, data |-> PyNone]

\* validate_calibration_results(cal_df).
ValidateCalibrationResults(cal_df) ==
    IF cal_df = <<>>
    THEN [ok |-> FALSE, data |-> PyNone]
    ELSE LET failed_df == SelectSeq(cal_df, RowFailed)
             failed_sensor_nums ==
                 SortedSeq({failed_df[i].sensor_num : i \in 1..Len(failed_df)})
         IN  IF failed_df # <<>>
             THEN [ok |-> FALSE, data |-> PyList(failed_sensor_nums)]
             ELSE [ok |-> TRUE, data |-> PyNone]

\* The call of validate_calibration_results.
V_Validate ==
    /\ v_pc = "call"
    /\ v_ret' = ValidateCalibrationResults(v_df)
    /\ v_pc' = "done"
    /\ UNCHANGED v_df

\* A call as it starts.
Validate_Start(cal_df) ==
    /\ v_pc = "call"
    /\ v_df = cal_df
    /\ v_ret = [ok |-> FALSE, data |-> PyNone]

\* No call in progress.
Validate_Idle ==
    /\ v_pc = "idle"
    /\ v_df = <<>>
    /\ v_ret = [ok |-> FALSE, data |-> PyNone]

(***************************************************************************)
(* IPXConfigurator.abnormal_high_magnitude_check and raw_data_check        *)
(* (IPX.py).  Real numbers are kept as integers: logarithms in thousandths,*)
(* the median doubled, the median absolute deviation four-fold.            *)
(***************************************************************************)
\* 0.6745, in ten-thousandths.
ZScale == 6745

\* threshold = 3.5, in ten-thousandths.
Threshold == 35000

\* num_no_changes_allowed.
NumNoChangesAllowed == 3

\* The raw values a sensor reports in the samples given to the magnitude check.
RawValues == {-7, 0, 7, 8, 900}

\* The samples abnormal_high_magnitude_check is called with directly.
MagnitudeSamples == UNION {[1..n -> RawValues] : n \in 1..MaxSample}

\* The first samples get_raw hands to raw_data_check: one without outlier and
\* with a zero reading, one with an outlier, one with zero MAD, one bimodal.
RawFirstSamples ==
    {<<-7, 0, 7, 8>>, <<7, 8, 8, 900>>, <<7, 7, 7, 8>>, <<7, 8, 900, 900>>}

\* The sensor_index arguments: the None an empty DataFrame leaves in
\* failed_sensor_nums, and lists of positions (the last one past the end of a
\* four-value sample).
IndexChoices ==
    {PyNone, PyList(<<>>), PyList(<<1, 3>>), PyList(<<0, 1, 2>>),
     PyList(<<0, 1, 2, 3>>), PyList(<<1, 4>>)}

Abs(x) == IF x < 0 THEN -x ELSE x

\* np.log1p(np.abs(x)), in thousandths.
Log1pAbs(x) ==
    CASE Abs(x) = 0   -> 0
      [] Abs(x) = 7   -> 2079
      [] Abs(x) = 8   -> 2197
      [] Abs(x) = 900 -> 6803

RECURSIVE SortValues(_)
\* np.sort of a one-dimensional array.
SortValues(values) ==
    IF values = <<>> THEN <<>>
    ELSE LET i == CHOOSE i \in 1..Len(values) :
                      \A j \in 1..Len(values) : values[i] <= values[j]
             rest == [k \in 1..(Len(values) - 1) |->
                         IF k < i THEN values[k] ELSE values[k + 1]]
         IN  <<values[i]>> \o SortValues(rest)

\* Twice np.median of a sorted, non-empty array.
Median2(sorted) ==
    LET n == Len(sorted)
    IN  IF n % 2 = 1 THEN 2 * sorted[(n + 1) \div 2]
        ELSE sorted[n \div 2] + sorted[n \div 2 + 1]

\* abnormal_high_magnitude_check without the `if mad_y == 0: raise`: numpy
\* divides by the zero MAD, giving an infinite score for every value away from
\* the median and nan (which compares false) for the others.
AbnormalHighMagnitudeCheck_NoZeroTest(raw_values, use_log) ==
    LET sorted_values == SortValues(raw_values)
        y == [i \in 1..Len(sorted_values) |->
                 IF use_log THEN Log1pAbs(sorted_values[i]) ELSE sorted_values[i]]
        median2 == Median2(y)
        dev2 == [i \in 1..Len(y) |-> Abs(2 * y[i] - median2)]
        mad4 == Median2(SortValues(dev2))
        scored == {i \in 1..Len(y) : y[i] # 0}
    IN  [result |-> IF \E i \in scored : ZScale * 2 * dev2[i] > Threshold * mad4
                    THEN "False" ELSE "True",
         divisors |-> IF scored = {} THEN {} ELSE {mad4}]

\* abnormal_high_magnitude_check(uid, raw_values, threshold=3.5, use_log):
\* the result ("True", "False" or the exception raised) and the values the
\* scores were divided by.  |0.6745 * (v - median) / mad| > 3.5 is
\* 0.6745 * 2 * |2v - 2 median| > 3.5 * 4 mad for a positive mad.
AbnormalHighMagnitudeCheck(raw_values, use_log) ==
    LET sorted_values == SortValues(raw_values)
        y == [i \in 1..Len(sorted_values) |->
                 IF use_log THEN Log1pAbs(sorted_values[i]) ELSE sorted_values[i]]
        median2 == Median2(y)
        dev2 == [i \in 1..Len(y) |-> Abs(2 * y[i] - median2)]
        mad4 == Median2(SortValues(dev2))
        scored == {i \in 1..Len(y) : y[i] # 0}
    IN  IF mad4 = 0
        THEN [result |-> "CALIBRATION_CHECK_ERROR", divisors |-> {}]
        ELSE [result |-> IF \E i \in scored :
                                ZScale * 2 * dev2[i] > Threshold * mad4
                         THEN "False" ELSE "True",
              divisors |-> IF scored = {} THEN {} ELSE {mad4}]

\* `num_no_change > num_no_changes_allowed` with `>=`.
NoChangeExceeded_AtLeast(num_no_change) == num_no_change >= NumNoChangesAllowed

\* `if num_no_change > num_no_changes_allowed`.
NoChangeExceeded(num_no_change) == num_no_change > NumNoChangesAllowed

\* num_no_change after the inner loop over sensor_index for one pair.
NumNoChange(tuple_1, tuple_2, sensor_index) ==
    Cardinality({j \in 1..Len(sensor_index) :
                    tuple_1[sensor_index[j] + 1] = tuple_2[sensor_index[j] + 1]})

\* What raw_data_check does once raw_readings_list is complete.
RawDataCheck(raw_readings_list, sensor_index) ==
    IF raw_readings_list = <<>>
    THEN [kind |-> "raise", exc |-> "IndexError", passed |-> FALSE, values |-> <<>>]
    ELSE
    LET raw_values == raw_readings_list[1]
        magnitude == AbnormalHighMagnitudeCheck(raw_values, TRUE).result
        pairs == 1..(Len(raw_readings_list) - 1)
        OutOfRange == \E j \in 1..Len(sensor_index.list) :
                         sensor_index.list[j] >= Len(raw_values)
    IN  IF magnitude = "CALIBRATION_CHECK_ERROR"
        THEN [kind |-> "raise", exc |-> magnitude, passed |-> FALSE, values |-> <<>>]
        ELSE IF magnitude = "False"
        THEN [kind |-> "return", exc |-> "none", passed |-> FALSE,
              values |-> raw_values]
        ELSE IF pairs = {}
        THEN [kind |-> "return", exc |-> "none", passed |-> TRUE,
              values |-> raw_values]
        ELSE IF sensor_index.none
        THEN [kind |-> "raise", exc |-> "TypeError", passed |-> FALSE,
              values |-> <<>>]
        ELSE IF OutOfRange
        THEN [kind |-> "raise", exc |-> "IndexError", passed |-> FALSE,
              values |-> <<>>]
        ELSE [kind |-> "return", exc |-> "none",
              passed |-> ~ \E p \in pairs :
                            NoChangeExceeded(
                               NumNoChange(raw_readings_list[p],
                                           raw_readings_list[p + 1],
                                           sensor_index.list)),
              values |-> raw_values]

\* The call of abnormal_high_magnitude_check.
K_Magnitude ==
    /\ k_fn = "abnormal_high_magnitude_check"
    /\ k_pc = "call"
    /\ LET out == AbnormalHighMagnitudeCheck(k_readings[1], k_uselog)
       IN  /\ k_div' = out.divisors
           /\ IF out.result = "CALIBRATION_CHECK_ERROR"
              THEN /\ k_pc' = "raised"
                   /\ k_exc' = out.result
                   /\ UNCHANGED k_ret
              ELSE /\ k_pc' = "done"
                   /\ k_ret' = [passed |-> out.result = "True", values |-> <<>>]
                   /\ UNCHANGED k_exc
    /\ UNCHANGED <<k_fn, k_index, k_num, k_uselog, k_readings, k_gets>>

\* One pass of `for i in range(num_readings)`: get_raw answers with a sample
\* (the first from RawFirstSamples, a later one differing from the one before
\* at any set of positions) or raises.
K_GetRaw ==
    /\ k_fn = "raw_data_check"
    /\ k_pc = "read"
    /\ k_gets < k_num
    /\ k_gets' = k_gets + 1
    /\ \/ /\ \E reading \in
                 IF k_readings = <<>> THEN RawFirstSamples
                 ELSE LET last == k_readings[Len(k_readings)]
                      IN  {[i \in 1..Len(last) |->
                               IF i \in changed THEN last[i] + 1 ELSE last[i]] :
                             changed \in SUBSET (1..Len(last))} :
                k_readings' = Append(k_readings, reading)
          /\ UNCHANGED <<k_pc, k_exc>>
       \/ /\ k_pc' = "raised"
          /\ k_exc' = "IPXNoResponseError"
          /\ UNCHANGED k_readings
    /\ UNCHANGED <<k_fn, k_index, k_num, k_uselog, k_ret, k_div>>

\* raw_data_check after the reading loop: the magnitude check of the first
\* sample, then the comparison of consecutive samples.
K_Compare ==
    /\ k_fn = "raw_data_check"
    /\ k_pc = "read"
    /\ k_gets = k_num
    /\ LET out == RawDataCheck(k_readings, k_index)
       IN  IF out.kind = "raise"
           THEN /\ k_pc' = "raised"
                /\ k_exc' = out.exc
                /\ UNCHANGED k_ret
           ELSE /\ k_pc' = "done"
                /\ k_ret' = [passed |-> out.passed, values |-> out.values]
                /\ UNCHANGED k_exc
    /\ UNCHANGED <<k_fn, k_index, k_num, k_uselog, k_readings, k_gets, k_div>>

\* abnormal_high_magnitude_check as it is called.
Magnitude_Start(raw_values, use_log) ==
    /\ k_fn = "abnormal_high_magnitude_check"
    /\ k_pc = "call"
    /\ k_index = PyNone
    /\ k_num = 0
    /\ k_uselog = use_log
    /\ k_readings = <<raw_values>>
    /\ k_gets = 0
    /\ k_ret = [passed |-> FALSE, values |-> <<>>]
    /\ k_exc = "none"
    /\ k_div = {}

\* raw_data_check as it is called.
RawCheck_Start(sensor_index, num_readings) ==
    /\ k_fn = "raw_data_check"
    /\ k_pc = "read"
    /\ k_index = sensor_index
    /\ k_num = num_readings
    /\ k_uselog = TRUE
    /\ k_readings = <<>>
    /\ k_gets = 0
    /\ k_ret = [passed |-> FALSE, values |-> <<>>]
    /\ k_exc = "none"
    /\ k_div = {}

\* Neither check in progress.
RawCheck_Idle ==
    /\ k_fn = "none"
    /\ k_pc = "idle"
    /\ k_index = PyNone
    /\ k_num = 0
    /\ k_uselog = TRUE
    /\ k_readings = <<>>
    /\ k_gets = 0
    /\ k_ret = [passed |-> FALSE, values |-> <<>>]
    /\ k_exc = "none"
    /\ k_div = {}

(***************************************************************************)
(* The `with` blocks of IPXSerialCommunicator (IPX.py) and of the testers  *)
(* that wrap a connection (IPX_datalogger_tester.py).                      *)
(***************************************************************************)
\* The context managers the workflows enter.
ContextManagers == {"IPXSerialCommunicator", "IPXGeosenseTester", "IPXModbusTester"}

\* How the body of a with block ends: it runs to its end, executes `return`,
\* or an exception leaves it.
BodyOutcomes ==
    {"end", "return", "IPXNoResponseError", "IPXVerificationError", "ValueError",
     "UserAbortError", "KeyboardInterrupt"}

\* IPXSerialCommunicator.__exit__ closing the port only when an exception
\* left the block.
CommunicatorExit_CloseOnError(is_open, exc_type) ==
    [is_open |-> IF exc_type = "none" THEN is_open ELSE FALSE, returns |-> "None"]

\* IPXSerialCommunicator.__exit__(exc_type, exc_value, traceback): logs the
\* exception, closes the connection if it is open, returns None.
CommunicatorExit(is_open, exc_type) ==
    [is_open |-> FALSE, returns |-> "None"]

\* __exit__ of each context manager: IPXGeosenseTester forwards to its
\* communicator's __exit__ and returns None, IPXModbusTester disconnects and
\* returns self.
ManagerExit(cm, is_open, exc_type) ==
    CASE cm = "IPXSerialCommunicator" -> CommunicatorExit(is_open, exc_type)
      [] cm = "IPXGeosenseTester" ->
            [is_open |-> CommunicatorExit(is_open, exc_type).is_open,
             returns |-> TesterExitReturns(TRUE)]
      [] cm = "IPXModbusTester" ->
            [is_open |-> FALSE, returns |-> TesterExitReturns(FALSE)]

\* __enter__: the port opens, or serial.Serial raises and the block is not
\* entered.
W_Enter ==
    /\ w_pc = "enter"
    /\ \/ /\ w_open' = TRUE
          /\ w_pc' = "body"
          /\ UNCHANGED w_exc
       \/ /\ w_open' = FALSE
          /\ w_pc' = "raised"
          /\ w_exc' = "SerialException"
    /\ UNCHANGED <<w_cm, w_cmds, w_body>>

\* The body exchanges one command with the device.
W_Command ==
    /\ w_pc = "body"
    /\ w_cmds < MaxBodyCmds
    /\ w_cmds' = w_cmds + 1
    /\ UNCHANGED <<w_cm, w_pc, w_open, w_body, w_exc>>

\* Control leaves the body.
W_BodyEnds ==
    /\ w_pc = "body"
    /\ \E outcome \in BodyOutcomes :
          /\ w_body' = outcome
          /\ w_pc' = "exit"
    /\ UNCHANGED <<w_cm, w_open, w_cmds, w_exc>>

\* The with statement calls __exit__: an exception that left the body goes on
\* unless __exit__ returned a true value.
W_Exit ==
    /\ w_pc = "exit"
    /\ LET exc_type == IF w_body \in ExcClasses THEN w_body ELSE "none"
           exit == ManagerExit(w_cm, w_open, exc_type)
       IN  /\ w_open' = exit.is_open
           /\ IF exc_type # "none" /\ ~ExitSuppresses(exit.returns)
              THEN w_pc' = "raised" /\ w_exc' = exc_type
              ELSE /\ w_pc' = IF w_body = "return" THEN "returned" ELSE "after"
                   /\ UNCHANGED w_exc
    /\ UNCHANGED <<w_cm, w_cmds, w_body>>

\* A with statement about to call __enter__.
With_Start(cm) ==
    /\ w_cm = cm
    /\ w_pc = "enter"
    /\ w_open = FALSE
    /\ w_cmds = 0
    /\ w_body = "none"
    /\ w_exc = "none"

\* No with statement running.
With_Idle ==
    /\ w_cm = "none"
    /\ w_pc = "idle"
    /\ w_open = FALSE
    /\ w_cmds = 0
    /\ w_body = "none"
    /\ w_exc = "none"

(***************************************************************************)
(* Sensor detection: IPXConfigurator.verify_sensor_count (IPX.py) under    *)
(* retry_on_failure (Failure_handlers.py), as the first step of            *)
(* run_configuration_flow and run_uid_update_flow (IPX_workflows.py).      *)
(***************************************************************************)
\* int(IPXCommands.Default_settings.Check_sensor_uid).
CheckUid == 1111111111

\* The default of prompt_user_on_other_failure's error_message parameter.
DefaultErrorMessage == ""

\* The flows that start with the detection step.
DetectFlows == {"run_configuration_flow", "run_uid_update_flow"}

\* What list_uids(data_type='list') can return in one round trip.
Listings ==
    {<<>>, <<101>>, <<CheckUid>>, <<101, 102>>, <<101, CheckUid>>,
     <<CheckUid, 101, CheckUid>>, <<102, CheckUid, 101>>}

\* num_sensors, as the operator enters it.
NumSensorsChoices == {1, 2}

\* The loop over all_uids: the check sensor is taken out and remembered.
FilterCheckSensor(all_uids) ==
    [valid_uids |-> SelectSeq(all_uids, LAMBDA uid : ~(uid = CheckUid)),
     check_sensor_found |-> \E i \in 1..Len(all_uids) : all_uids[i] = CheckUid]

\* `if detected_sensors == num_sensors` with `>=`.
CountMatches_AtLeast(detected_sensors, num_sensors) == detected_sensors >= num_sensors

\* `if detected_sensors == num_sensors`.
CountMatches(detected_sensors, num_sensors) == detected_sensors = num_sensors

\* The values verify_sensor_count and retry_on_failure hand back: None, or the
\* tuple (valid_uids, check_sensor_found).
DetectNone == [none |-> TRUE, uids |-> <<>>, check |-> FALSE]
DetectTuple(uids, check) == [none |-> FALSE, uids |-> uids, check |-> check]

\* `uids_list, x = <value>`: unpacking None raises TypeError.
UnpackTwo(value) == IF value.none THEN "TypeError" ELSE "none"

\* The except clauses around the with block of each flow.  In
\* run_uid_update_flow only (IPXSerialError, SystemExit) is caught, and the
\* function then ends without a return statement.
DetectHandlers(flow, e) ==
    IF flow = "run_configuration_flow" THEN FlowHandlers(e)
    ELSE IF IsInstance(e, "IPXSerialError")
    THEN [pc |-> "returned", ret |-> "None", exc |-> "none"]
    ELSE [pc |-> "raised", ret |-> "none", exc |-> e]

\* An exception leaves the with block of the flow.
D_Raise(e) ==
    /\ d_raised' = e
    /\ d_pc' = DetectHandlers(d_flow, e).pc
    /\ d_ret' = DetectHandlers(d_flow, e).ret
    /\ d_exc' = DetectHandlers(d_flow, e).exc

\* One iteration of `for attempt in range(1, self.max_retries + 1)`: a
\* list_uids round trip, the filter, the count test; after the last mismatch
\* the else clause of the for statement returns None.
D_ListUids ==
    /\ d_pc = "verify"
    /\ d_attempt < d_maxretries
    /\ \/ \E all_uids \in Listings :
            LET f == FilterCheckSensor(all_uids)
            IN  /\ d_lists' = Append(d_lists, all_uids)
                /\ d_attempt' = d_attempt + 1
                /\ IF CountMatches(Len(f.valid_uids), d_num)
                   THEN /\ d_result' = DetectTuple(f.valid_uids, f.check_sensor_found)
                        /\ d_pc' = "verified"
                   ELSE IF d_attempt + 1 = d_maxretries
                   THEN d_result' = DetectNone /\ d_pc' = "verified"
                   ELSE UNCHANGED <<d_result, d_pc>>
                /\ UNCHANGED <<d_ret, d_exc, d_raised>>
       \/ /\ D_Raise("IPXNoResponseError")
          /\ d_attempt' = d_attempt + 1
          /\ UNCHANGED <<d_lists, d_result>>
    /\ UNCHANGED <<d_flow, d_num, d_maxretries, d_calls, d_prompts, d_answers>>

\* retry_on_failure looks at what operation_func returned: False or None
\* calls prompt_func() (no argument), anything else is returned.
D_RetryOnFailure ==
    /\ d_pc = "verified"
    /\ IF d_result.none
       THEN /\ d_prompts' = Append(d_prompts, DefaultErrorMessage)
            /\ d_pc' = "prompt"
       ELSE /\ d_pc' = "unpack"
            /\ UNCHANGED d_prompts
    /\ UNCHANGED <<d_flow, d_num, d_maxretries, d_attempt, d_lists, d_calls, d_result,
                   d_answers, d_ret, d_exc, d_raised>>

\* The operator answers prompt_user_on_other_failure: retry calls
\* verify_sensor_count again, skip returns None, abort raises UserAbortError
\* out of the prompt.
D_Prompt ==
    /\ d_pc = "prompt"
    /\ \E answer \in Answers :
          /\ answer = "retry" => d_calls < MaxDetectCalls
          /\ d_answers' = Append(d_answers, answer)
          /\ IF PromptRaises(answer) # "none"
             THEN /\ D_Raise(PromptRaises(answer))
                  /\ UNCHANGED <<d_attempt, d_lists, d_calls, d_result>>
             ELSE IF answer = "retry"
             THEN /\ d_pc' = "verify"
                  /\ d_attempt' = 0
                  /\ d_lists' = <<>>
                  /\ d_calls' = d_calls + 1
                  /\ UNCHANGED <<d_result, d_ret, d_exc, d_raised>>
             ELSE /\ d_pc' = "unpack"
                  /\ d_result' = DetectNone
                  /\ UNCHANGED <<d_attempt, d_lists, d_calls, d_ret, d_exc, d_raised>>
    /\ UNCHANGED <<d_flow, d_num, d_maxretries, d_prompts>>

\* `uids_list, x = fh.retry_on_failure(...)`, then `if uids_list is None:
\* ... return`; otherwise the flow goes on to its next device commands.
D_Unpack ==
    /\ d_pc = "unpack"
    /\ IF UnpackTwo(d_result) # "none"
       THEN D_Raise(UnpackTwo(d_result))
       ELSE /\ d_pc' = "proceed"
            /\ UNCHANGED <<d_ret, d_exc, d_raised>>
    /\ UNCHANGED <<d_flow, d_num, d_maxretries, d_attempt, d_lists, d_calls, d_result,
                   d_prompts, d_answers>>

\* A flow as it reaches its detection step, inside the with block.
Detect_Start(flow, num_sensors, max_retries) ==
    /\ d_flow = flow
    /\ d_pc = "verify"
    /\ d_num = num_sensors
    /\ d_maxretries = max_retries
    /\ d_attempt = 0
    /\ d_lists = <<>>
    /\ d_calls = 1
    /\ d_result = DetectNone
    /\ d_prompts = <<>>
    /\ d_answers = <<>>
    /\ d_ret = "none"
    /\ d_exc = "none"
    /\ d_raised = "none"

\* No detection step running.
Detect_Idle ==
    /\ d_flow = "none"
    /\ d_pc = "idle"
    /\ d_num = 0
    /\ d_maxretries = 0
    /\ d_attempt = 0
    /\ d_lists = <<>>
    /\ d_calls = 0
    /\ d_result = DetectNone
    /\ d_prompts = <<>>
    /\ d_answers = <<>>
    /\ d_ret = "none"
    /\ d_exc = "none"
    /\ d_raised = "none"

(***************************************************************************)
(* IPXCommands.Commands (IPX_Config.py) and their rendering with           *)
(* str.format in the communicator's methods.  A text is a sequence of      *)
(* pieces: "\n" and "\r" are the newline and carriage-return characters,   *)
(* every other piece is text without either.                               *)
(***************************************************************************)
Lit(text) == [lit |-> TRUE, text |-> text, field |-> 0]
Field(n) == [lit |-> FALSE, text |-> "", field |-> n]

\* The templates with one placeholder and those with none.
ReadTemplates == {"get_status", "get_raw", "calibrate"}

\* Every template of IPXCommands.Commands.
TemplateNames == Setters \cup ReadTemplates \cup {"list_uids", "get_GXM_measurement"}

\* The template text: literals and placeholders in order.
Template(op) ==
    CASE op = "list_uids" -> <<Lit("op ipx 0 list_uids"), Lit("\n")>>
      [] op \in ReadTemplates ->
            <<Lit("op ipx "), Field(1), Lit(" "), Lit(op), Lit("\n")>>
      [] op = "set_uid" ->
            <<Lit("op ipx "), Field(1), Lit(" set_uid 567892 "), Field(2), Lit("\n")>>
      [] op = "get_GXM_measurement" -> <<Lit("@@"), Field(1), Lit(" SR"), Lit("\r")>>
      [] OTHER ->
            <<Lit("op ipx "), Field(1), Lit(" "), Lit(op), Lit(" "), Field(2), Lit("\n")>>

\* The placeholders a template has.
FieldsOf(op) ==
    {Template(op)[i].field : i \in {j \in 1..Len(Template(op)) : ~Template(op)[j].lit}}

\* Argument values: Python ints and strings.
PyInt(n) == [kind |-> "int", int |-> n, text |-> <<>>]
PyText(text) == [kind |-> "str", int |-> 0, text |-> text]

\* The values a caller can pass for a UID, a parameter value or an alias.
ArgValues ==
    {PyInt(0), PyInt(7), PyInt(-3), PyText(<<>>), PyText(<<"104">>),
     PyText(<<"7", "\n">>), PyText(<<"7", "\n", "op ipx 0 calibrate">>)}

\* str(value): the decimal digits of an int, a string as it is.
PyStr(value) == IF value.kind = "int" THEN <<ToString(value.int)>> ELSE value.text

RECURSIVE Render_StrippedArgs(_, _)
\* Rendering that drops the line breaks of the argument texts.
Render_StrippedArgs(template, args) ==
    IF template = <<>> THEN <<>>
    ELSE LET piece == Head(template)
             text == IF piece.lit THEN <<piece.text>>
                     ELSE SelectSeq(PyStr(args[piece.field]),
                                    LAMBDA ch : ch \notin {"\n", "\r"})
         IN  text \o Render_StrippedArgs(Tail(template), args)

RECURSIVE Render(_, _)
\* template.format(...): every placeholder replaced by str() of its argument.
Render(template, args) ==
    IF template = <<>> THEN <<>>
    ELSE LET piece == Head(template)
             text == IF piece.lit THEN <<piece.text>> ELSE PyStr(args[piece.field])
         IN  text \o Render(Tail(template), args)

\* A method formats its command.
T_Render ==
    /\ t_pc = "call"
    /\ t_cmd' = Render(Template(t_op), t_args)
    /\ t_pc' = "done"
    /\ UNCHANGED <<t_op, t_args>>

\* A method called with its arguments.
Render_Start(op, args) ==
    /\ t_pc = "call"
    /\ t_op = op
    /\ t_args = args
    /\ t_cmd = <<>>

\* No command being formatted.
Render_Idle ==
    /\ t_pc = "idle"
    /\ t_op = "none"
    /\ t_args = <<>>
    /\ t_cmd = <<>>

(***************************************************************************)
(* IPXGeosenseTester.gxm_measure_test (IPX_datalogger_tester.py).  The     *)
(* axis value of the response is held in units of 1e-5, angles in          *)
(* thousandths of a degree, temperatures in whole degrees.                 *)
(***************************************************************************)
AxisOne == 100000

\* The axis values an insert can answer with (1e-5 units).
AxisRawValues ==
    {-200000, -100001, -100000, -50000, -173, 0, 50000, 70711, 100000, 100001, 150000}

\* The temperatures an insert can answer with.
Temperatures == {5, 10, 25, 40, 41}

\* max(-1.0, min(1.0, AxisA_raw))
Clamp(raw) ==
    LET low == IF raw < AxisOne THEN raw ELSE AxisOne
    IN  IF low > -AxisOne THEN low ELSE -AxisOne

\* math.asin is defined on [-1, 1] and raises ValueError outside.
AsinDefined(x) == -AxisOne <= x /\ x <= AxisOne

\* math.trunc(math.degrees(math.asin(x)) * 1000), for the values above.
AsinMilliDegrees(x) ==
    CASE x = -100000 -> -90000
      [] x = -50000 -> -30000
      [] x = -173 -> -99
      [] x = 0 -> 0
      [] x = 50000 -> 30000
      [] x = 70711 -> 45000
      [] x = 100000 -> 90000

\* The value the conversion is computed from: math.asin(AxisA_raw).
AxisArgument(raw, clamped) == raw

\* The response is split and the axis value clamped.
G_Parse ==
    /\ g_pc = "call"
    /\ g_clamped' = Clamp(g_parts.axis)
    /\ g_pc' = "parsed"
    /\ UNCHANGED <<g_parts, g_ret, g_exc>>

\* The conversion, the two checks and the result dictionary.
G_Convert ==
    /\ g_pc = "parsed"
    /\ LET x == AxisArgument(g_parts.axis, g_clamped)
       IN  IF AsinDefined(x)
           THEN LET AxisA == AsinMilliDegrees(x)
                    axis_ok == AxisA = -99
                    temp_ok == 10 <= g_parts.temperature /\ g_parts.temperature <= 40
                IN  /\ g_ret' = <<[axis_a |-> AxisA,
                                   temperature |-> g_parts.temperature,
                                   pass |-> axis_ok /\ temp_ok]>>
                    /\ g_exc' = "none"
           ELSE /\ g_ret' = <<>>
                /\ g_exc' = "ValueError"
    /\ g_pc' = "done"
    /\ UNCHANGED <<g_parts, g_clamped>>

\* gxm_measure_test has received the insert's answer.
Gxm_Start(axis, temperature) ==
    /\ g_pc = "call"
    /\ g_parts = [axis |-> axis, temperature |-> temperature]
    /\ g_clamped = 0
    /\ g_ret = <<>>
    /\ g_exc = "none"

\* No measurement test running.
Gxm_Idle ==
    /\ g_pc = "idle"
    /\ g_parts = [axis |-> 0, temperature |-> 0]
    /\ g_clamped = 0
    /\ g_ret = <<>>
    /\ g_exc = "none"

(***************************************************************************)
(* IPX.py: IPXConfigurator.set_default_parameters.                         *)
(***************************************************************************)
\* The uids_list arguments: lists of distinct UIDs 101, 102, ... in any order.
UidLists ==
    {l \in UNION {[1..n -> {100 + i : i \in 1..MaxListed}] : n \in 0..MaxListed} :
        \A i, j \in 1..Len(l) : l[i] = l[j] => i = j}

\* The baud argument.
BaudChoices == {9600, 115200}

\* The aliases counting up from 1 in list order.
AliasesAndUids_Ascending(uids_list) ==
    [i \in 1..Len(uids_list) |-> <<i, uids_list[i]>>]

\* list(zip(range(len(uids_list), 0, -1), uids_list)): (alias, uid) tuples.
AliasesAndUids(uids_list) ==
    [i \in 1..Len(uids_list) |-> <<Len(uids_list) - i + 1, uids_list[i]>>]

\* The setters called for one UID, in order, with the alias setter or without.
SetterSequence(set_aliases) ==
    IF set_aliases
    THEN <<"set_baud", "set_alias", "set_gain", "set_centroid_threshold",
           "set_n_stds", "set_centroid_res", "set_term">>
    ELSE <<"set_baud", "set_gain", "set_centroid_threshold",
           "set_n_stds", "set_centroid_res", "set_term">>

\* The value each setter is called with: baud, the alias as str(alias), and
\* the values of IPXCommands.Default_settings.
SetterValue(op, baud, alias) ==
    CASE op = "set_baud" -> ToString(baud)
      [] op = "set_alias" -> ToString(alias)
      [] op = "set_gain" -> ToString(3)
      [] op = "set_centroid_threshold" -> ToString(800)
      [] op = "set_n_stds" -> ToString(10)
      [] op = "set_centroid_res" -> ToString(10)
      [] op = "set_term" -> ToString(0)

\* What a setter call can raise.
SetterErrors == {"IPXNoResponseError", "IPXVerificationError"}

\* One setter call of the loop body: it returns, or raises and the exception
\* leaves set_default_parameters.
P_Setter ==
    /\ p_pc = "loop"
    /\ p_idx <= Len(p_args.uids_list)
    /\ LET seq == SetterSequence(p_args.set_aliases)
           op == seq[p_step]
           uid == ToString(p_args.uids_list[p_idx])
           alias == AliasesAndUids(p_args.uids_list)[p_idx][1]
       IN  /\ p_cmds' = Append(p_cmds, [op |-> op, uid |-> uid,
                                        val |-> SetterValue(op, p_args.baud, alias)])
           /\ \/ /\ p_step' = IF p_step = Len(seq) THEN 1 ELSE p_step + 1
                 /\ p_idx' = IF p_step = Len(seq) THEN p_idx + 1 ELSE p_idx
                 /\ UNCHANGED <<p_pc, p_exc>>
              \/ /\ \E e \in SetterErrors : p_exc' = e
                 /\ p_pc' = "raised"
                 /\ UNCHANGED <<p_idx, p_step>>
    /\ UNCHANGED <<p_args, p_ret>>

\* The list is exhausted: the (alias, uid) list or uids_list is returned.
P_Return ==
    /\ p_pc = "loop"
    /\ p_idx > Len(p_args.uids_list)
    /\ p_ret' = IF p_args.set_aliases THEN AliasesAndUids(p_args.uids_list)
                ELSE p_args.uids_list
    /\ p_pc' = "returned"
    /\ UNCHANGED <<p_args, p_idx, p_step, p_cmds, p_exc>>

\* set_default_parameters as it is called.
Params_Start(uids_list, baud, set_aliases) ==
    /\ p_pc = "loop"
    /\ p_args = [uids_list |-> uids_list, baud |-> baud, set_aliases |-> set_aliases]
    /\ p_idx = 1
    /\ p_step = 1
    /\ p_cmds = <<>>
    /\ p_ret = <<>>
    /\ p_exc = "none"

\* set_default_parameters not running.
Params_Idle ==
    /\ p_pc = "idle"
    /\ p_args = [uids_list |-> <<>>, baud |-> 0, set_aliases |-> FALSE]
    /\ p_idx = 1
    /\ p_step = 1
    /\ p_cmds = <<>>
    /\ p_ret = <<>>
    /\ p_exc = "none"

(***************************************************************************)
(* IPX_workflows.py: initial_uid_update.                                   *)
(***************************************************************************)
\* IPXCommands.Default_settings.Check_sensor_uid: a str.
Check_sensor_uid == PyText(<<ToString(CheckUid)>>)

\* What list_uids(data_type='list') can hand back: a list of ints.
UpdateListings ==
    {<<>>, <<101>>, <<CheckUid>>, <<101, CheckUid>>, <<CheckUid, 101>>, <<2, 101>>}

\* What the operator types at the two input() calls; "^C" is Ctrl+C.
Confirmations == {"", "abort", "retry", "exit", "^C"}

\* Python's == of two values: an int and a str are never equal.
PyEquals(a, b) == a.kind = b.kind /\ a.int = b.int /\ a.text = b.text

\* `last_uid == IPXCommands.Default_settings.Check_sensor_uid`, last_uid
\* being an element of the list of ints.
IsCheckSensor(last_uid) == PyEquals(PyInt(last_uid), Check_sensor_uid)

\* `if not com_port`: the error is logged and the function returns.
U_CheckPort ==
    /\ u_pc = "call"
    /\ IF u_port = ""
       THEN /\ u_pc' = "returned"
            /\ u_log' = Append(u_log, "Invalid COM port")
       ELSE u_pc' = "list" /\ UNCHANGED u_log
    /\ UNCHANGED <<u_port, u_uids, u_passes, u_cmds, u_exc>>

\* One pass up to the first input(): list_uids under retry_on_exception (a
\* list, None after 'skip', UserAbortError after 'abort'), uids_list[-1], and
\* the check-sensor test.
U_List ==
    /\ u_pc = "list"
    /\ u_passes < MaxPasses
    /\ u_passes' = u_passes + 1
    /\ \/ /\ u_pc' = "raised" /\ u_exc' = "UserAbortError"
          /\ UNCHANGED <<u_uids, u_log>>
       \/ /\ u_pc' = "returned"
          /\ u_log' = Append(u_log, "Sensor detection failed or was skipped")
          /\ UNCHANGED <<u_uids, u_exc>>
       \/ \E uids_list \in UpdateListings :
             /\ u_uids' = uids_list
             /\ IF uids_list = <<>>
                THEN u_pc' = "raised" /\ u_exc' = "IndexError" /\ UNCHANGED u_log
                ELSE IF IsCheckSensor(uids_list[Len(uids_list)])
                THEN /\ u_pc' = "returned"
                     /\ u_log' = Append(u_log, "Last detected sensor is a check sensor")
                     /\ UNCHANGED u_exc
                ELSE u_pc' = "confirm" /\ UNCHANGED <<u_exc, u_log>>
    /\ UNCHANGED <<u_port, u_cmds>>

\* The operator answers the first input(): Enter renames the last UID to
\* len(uids_list) and reads its raw data (either call can raise).
U_Confirm ==
    /\ u_pc = "confirm"
    /\ \E confirm \in Confirmations :
          IF confirm = ""
          THEN /\ u_cmds' = Append(u_cmds, [current_uid |-> u_uids[Len(u_uids)],
                                            new_uid |-> Len(u_uids)])
               /\ \/ u_pc' = "next" /\ UNCHANGED u_exc
                  \/ /\ u_pc' = "raised"
                     /\ \E e \in SetterErrors : u_exc' = e
          ELSE IF confirm \in {"abort", "^C"}
          THEN u_pc' = "raised" /\ u_exc' = "UserAbortError" /\ UNCHANGED u_cmds
          ELSE u_pc' = "list" /\ UNCHANGED <<u_exc, u_cmds>>
    /\ UNCHANGED <<u_port, u_uids, u_passes, u_log>>

\* The operator answers the second input(): Enter goes on with the next
\* sensor, anything else ends the session.
U_Next ==
    /\ u_pc = "next"
    /\ \E confirm \in Confirmations :
          IF confirm = "" THEN u_pc' = "list" /\ UNCHANGED u_exc
          ELSE IF confirm = "^C" THEN u_pc' = "raised" /\ u_exc' = "UserAbortError"
          ELSE u_pc' = "returned" /\ UNCHANGED u_exc
    /\ UNCHANGED <<u_port, u_uids, u_passes, u_cmds, u_log>>

\* The com_port arguments: none chosen, or a port.
ComPorts == {"", "COM3"}

\* initial_uid_update as it is called.
Update_Start(com_port) ==
    /\ u_pc = "call"
    /\ u_port = com_port
    /\ u_uids = <<>>
    /\ u_passes = 0
    /\ u_cmds = <<>>
    /\ u_log = <<>>
    /\ u_exc = "none"

\* initial_uid_update not running.
Update_Idle ==
    /\ u_pc = "idle"
    /\ u_port = ""
    /\ u_uids = <<>>
    /\ u_passes = 0
    /\ u_cmds = <<>>
    /\ u_log = <<>>
    /\ u_exc = "none"

InitListen ==
    /\ Update_Idle
    /\ Params_Idle
    /\ Gxm_Idle
    /\ Render_Idle
    /\ Detect_Idle
    /\ With_Idle
    /\ R_Idle /\ Cal_Idle /\ Flow_Idle /\ Comm_Idle /\ Validate_Idle /\ RawCheck_Idle
    /\ \E conn \in BOOLEAN, term \in {"None", "T"}, stale \in StaleInputs :
          Listen_Start(conn, term, stale)

NextListen ==
    \/ L_Send /\ UNCHANGED <<rvars, cvars, fvars, mvars, vvars, kvars, wvars, dvars, tvars, gvars, pvars, uvars>>
    \/ L_Arrive /\ UNCHANGED <<rvars, cvars, fvars, mvars, vvars, kvars, wvars, dvars, tvars, gvars, pvars, uvars>>
    \/ L_FirstByte /\ UNCHANGED <<rvars, cvars, fvars, mvars, vvars, kvars, wvars, dvars, tvars, gvars, pvars, uvars>>
    \/ L_Tick /\ UNCHANGED <<rvars, cvars, fvars, mvars, vvars, kvars, wvars, dvars, tvars, gvars, pvars, uvars>>
    \/ L_Iterate /\ UNCHANGED <<rvars, cvars, fvars, mvars, vvars, kvars, wvars, dvars, tvars, gvars, pvars, uvars>>

SpecListen == InitListen /\ [][NextListen]_vars

\* The reader's thread keeps running and its clock keeps advancing: the loop
\* sleeps 10 ms and iterates again until it breaks.
SpecListenFair == InitListen /\ [][NextListen]_vars /\ WF_vars(NextListen)

InitFlow ==
    /\ Update_Idle
    /\ Params_Idle
    /\ Gxm_Idle
    /\ Render_Idle
    /\ Detect_Idle
    /\ With_Idle
    /\ R_Idle /\ Cal_Idle /\ Listen_Idle /\ Comm_Idle /\ Validate_Idle /\ RawCheck_Idle
    /\ \E inserts \in BOOLEAN : Flow_Start(inserts)

NextFlow ==
    \/ F_Enter
    \/ F_StartTest
    \/ (f_pc = "inretry" /\ R_Call /\ UNCHANGED <<cvars, fvars, lvars, mvars, vvars, kvars, wvars, dvars, tvars, gvars, pvars, uvars>>)
    \/ (f_pc = "inretry" /\ R_Prompt /\ UNCHANGED <<cvars, fvars, lvars, mvars, vvars, kvars, wvars, dvars, tvars, gvars, pvars, uvars>>)
    \/ F_TestDone
    \/ F_TestRaised
    \/ F_LoopEnd
    \/ F_Analysis

SpecFlow == InitFlow /\ [][NextFlow]_vars

InitCal ==
    /\ Update_Idle
    /\ Params_Idle
    /\ Gxm_Idle
    /\ Render_Idle
    /\ Detect_Idle
    /\ With_Idle
    /\ Cal_Start /\ R_Idle /\ Flow_Idle /\ Listen_Idle /\ Comm_Idle /\ Validate_Idle /\ RawCheck_Idle

NextCal ==
    \/ Cal_Attempt /\ UNCHANGED <<rvars, fvars, lvars, mvars, vvars, kvars, wvars, dvars, tvars, gvars, pvars, uvars>>
    \/ Cal_PromptMag /\ UNCHANGED <<rvars, fvars, lvars, mvars, vvars, kvars, wvars, dvars, tvars, gvars, pvars, uvars>>
    \/ Cal_PromptStuck /\ UNCHANGED <<rvars, fvars, lvars, mvars, vvars, kvars, wvars, dvars, tvars, gvars, pvars, uvars>>
    \/ Cal_PromptExc /\ UNCHANGED <<rvars, fvars, lvars, mvars, vvars, kvars, wvars, dvars, tvars, gvars, pvars, uvars>>

SpecCal == InitCal /\ [][NextCal]_vars


InitRetry ==
    /\ Update_Idle
    /\ Params_Idle
    /\ Gxm_Idle
    /\ Render_Idle
    /\ Detect_Idle
    /\ With_Idle
    /\ Cal_Idle
    /\ Flow_Idle
    /\ Listen_Idle
    /\ Comm_Idle
    /\ Validate_Idle
    /\ RawCheck_Idle
    /\ \/ \E pf \in {"prompt_user_on_other_failure", "returns_choice"} :
            R_Start("failure", "operation_func", DefaultHandled, pf)
       \/ \E H \in HandledChoices :
            R_Start("exception", "operation_func", H, "prompt_user_on_other_failure")

NextRetry ==
    \/ R_Call /\ UNCHANGED <<cvars, fvars, lvars, mvars, vvars, kvars, wvars, dvars, tvars, gvars, pvars, uvars>>
    \/ R_Prompt /\ UNCHANGED <<cvars, fvars, lvars, mvars, vvars, kvars, wvars, dvars, tvars, gvars, pvars, uvars>>

SpecRetry == InitRetry /\ [][NextRetry]_vars

InitComm ==
    /\ Update_Idle
    /\ Params_Idle
    /\ Gxm_Idle
    /\ Render_Idle
    /\ Detect_Idle
    /\ With_Idle
    /\ R_Idle /\ Cal_Idle /\ Flow_Idle /\ Listen_Idle /\ Validate_Idle /\ RawCheck_Idle
    /\ \E op \in DeviceOps, uid \in UidChoices, arg \in SetterArgs, verify \in BOOLEAN :
          \E dtype \in DataTypeChoices(op) : Comm_Start(op, uid, arg, dtype, verify)

NextComm ==
    \/ M_Dispatch /\ UNCHANGED <<rvars, cvars, fvars, lvars, vvars, kvars, wvars, dvars, tvars, gvars, pvars, uvars>>
    \/ M_Receive /\ UNCHANGED <<rvars, cvars, fvars, lvars, vvars, kvars, wvars, dvars, tvars, gvars, pvars, uvars>>

SpecComm == InitComm /\ [][NextComm]_vars

InitValidate ==
    /\ Update_Idle
    /\ Params_Idle
    /\ Gxm_Idle
    /\ Render_Idle
    /\ Detect_Idle
    /\ With_Idle
    /\ R_Idle /\ Cal_Idle /\ Flow_Idle /\ Listen_Idle /\ Comm_Idle /\ RawCheck_Idle
    /\ \E cal_df \in CalFrames : Validate_Start(cal_df)

NextValidate ==
    \/ V_Validate /\ UNCHANGED <<rvars, cvars, fvars, lvars, mvars, kvars, wvars, dvars, tvars, gvars, pvars, uvars>>

SpecValidate == InitValidate /\ [][NextValidate]_vars

InitRawCheck ==
    /\ Update_Idle
    /\ Params_Idle
    /\ Gxm_Idle
    /\ Render_Idle
    /\ Detect_Idle
    /\ With_Idle
    /\ R_Idle /\ Cal_Idle /\ Flow_Idle /\ Listen_Idle /\ Comm_Idle /\ Validate_Idle
    /\ \/ \E raw_values \in MagnitudeSamples, use_log \in BOOLEAN :
             Magnitude_Start(raw_values, use_log)
       \/ \E sensor_index \in IndexChoices, num_readings \in 0..MaxReadings :
             RawCheck_Start(sensor_index, num_readings)

NextRawCheck ==
    \/ K_Magnitude /\ UNCHANGED <<rvars, cvars, fvars, lvars, mvars, vvars, wvars, dvars, tvars, gvars, pvars, uvars>>
    \/ K_GetRaw /\ UNCHANGED <<rvars, cvars, fvars, lvars, mvars, vvars, wvars, dvars, tvars, gvars, pvars, uvars>>
    \/ K_Compare /\ UNCHANGED <<rvars, cvars, fvars, lvars, mvars, vvars, wvars, dvars, tvars, gvars, pvars, uvars>>

SpecRawCheck == InitRawCheck /\ [][NextRawCheck]_vars

InitWith ==
    /\ Update_Idle
    /\ Params_Idle
    /\ Gxm_Idle
    /\ Render_Idle
    /\ Detect_Idle
    /\ R_Idle /\ Cal_Idle /\ Flow_Idle /\ Listen_Idle /\ Comm_Idle /\ Validate_Idle
    /\ RawCheck_Idle
    /\ \E cm \in ContextManagers : With_Start(cm)

NextWith ==
    \/ W_Enter /\ UNCHANGED <<rvars, cvars, fvars, lvars, mvars, vvars, kvars, dvars, tvars, gvars, pvars, uvars>>
    \/ W_Command /\ UNCHANGED <<rvars, cvars, fvars, lvars, mvars, vvars, kvars, dvars, tvars, gvars, pvars, uvars>>
    \/ W_BodyEnds /\ UNCHANGED <<rvars, cvars, fvars, lvars, mvars, vvars, kvars, dvars, tvars, gvars, pvars, uvars>>
    \/ W_Exit /\ UNCHANGED <<rvars, cvars, fvars, lvars, mvars, vvars, kvars, dvars, tvars, gvars, pvars, uvars>>

SpecWith == InitWith /\ [][NextWith]_vars

InitDetect ==
    /\ Update_Idle
    /\ Params_Idle
    /\ Gxm_Idle
    /\ Render_Idle
    /\ R_Idle /\ Cal_Idle /\ Flow_Idle /\ Listen_Idle /\ Comm_Idle /\ Validate_Idle
    /\ RawCheck_Idle /\ With_Idle
    /\ \E flow \in DetectFlows, num_sensors \in NumSensorsChoices,
          max_retries \in 1..MaxRetries :
          Detect_Start(flow, num_sensors, max_retries)

NextDetect ==
    \/ D_ListUids /\ UNCHANGED <<rvars, cvars, fvars, lvars, mvars, vvars, kvars, wvars, tvars, gvars, pvars, uvars>>
    \/ D_RetryOnFailure /\ UNCHANGED <<rvars, cvars, fvars, lvars, mvars, vvars, kvars, wvars, tvars, gvars, pvars, uvars>>
    \/ D_Prompt /\ UNCHANGED <<rvars, cvars, fvars, lvars, mvars, vvars, kvars, wvars, tvars, gvars, pvars, uvars>>
    \/ D_Unpack /\ UNCHANGED <<rvars, cvars, fvars, lvars, mvars, vvars, kvars, wvars, tvars, gvars, pvars, uvars>>

SpecDetect == InitDetect /\ [][NextDetect]_vars

InitRender ==
    /\ Update_Idle
    /\ Params_Idle
    /\ Gxm_Idle
    /\ R_Idle /\ Cal_Idle /\ Flow_Idle /\ Listen_Idle /\ Comm_Idle /\ Validate_Idle
    /\ RawCheck_Idle /\ With_Idle /\ Detect_Idle
    /\ \E op \in TemplateNames, a1 \in ArgValues, a2 \in ArgValues :
          Render_Start(op, <<a1, a2>>)

NextRender ==
    \/ T_Render /\ UNCHANGED <<rvars, cvars, fvars, lvars, mvars, vvars, kvars, wvars, dvars, gvars, pvars, uvars>>

SpecRender == InitRender /\ [][NextRender]_vars

InitGxm ==
    /\ Update_Idle
    /\ Params_Idle
    /\ R_Idle /\ Cal_Idle /\ Flow_Idle /\ Listen_Idle /\ Comm_Idle /\ Validate_Idle
    /\ RawCheck_Idle /\ With_Idle /\ Detect_Idle /\ Render_Idle
    /\ \E axis \in AxisRawValues, temperature \in Temperatures :
          Gxm_Start(axis, temperature)

NextGxm ==
    \/ G_Parse /\ UNCHANGED <<rvars, cvars, fvars, lvars, mvars, vvars, kvars, wvars, dvars, tvars, pvars, uvars>>
    \/ G_Convert /\ UNCHANGED <<rvars, cvars, fvars, lvars, mvars, vvars, kvars, wvars, dvars, tvars, pvars, uvars>>

SpecGxm == InitGxm /\ [][NextGxm]_vars

InitParams ==
    /\ Update_Idle
    /\ R_Idle /\ Cal_Idle /\ Flow_Idle /\ Listen_Idle /\ Comm_Idle /\ Validate_Idle
    /\ RawCheck_Idle /\ With_Idle /\ Detect_Idle /\ Render_Idle /\ Gxm_Idle
    /\ \E uids_list \in UidLists, baud \in BaudChoices, set_aliases \in BOOLEAN :
          Params_Start(uids_list, baud, set_aliases)

NextParams ==
    \/ P_Setter /\ UNCHANGED <<rvars, cvars, fvars, lvars, mvars, vvars, kvars, wvars, dvars, tvars, gvars, uvars>>
    \/ P_Return /\ UNCHANGED <<rvars, cvars, fvars, lvars, mvars, vvars, kvars, wvars, dvars, tvars, gvars, uvars>>

SpecParams == InitParams /\ [][NextParams]_vars

InitUpdate ==
    /\ R_Idle /\ Cal_Idle /\ Flow_Idle /\ Listen_Idle /\ Comm_Idle /\ Validate_Idle
    /\ RawCheck_Idle /\ With_Idle /\ Detect_Idle /\ Render_Idle /\ Gxm_Idle
    /\ Params_Idle
    /\ \E com_port \in ComPorts : Update_Start(com_port)

NextUpdate ==
    \/ U_CheckPort /\ UNCHANGED <<rvars, cvars, fvars, lvars, mvars, vvars, kvars, wvars, dvars, tvars, gvars, pvars>>
    \/ U_List /\ UNCHANGED <<rvars, cvars, fvars, lvars, mvars, vvars, kvars, wvars, dvars, tvars, gvars, pvars>>
    \/ U_Confirm /\ UNCHANGED <<rvars, cvars, fvars, lvars, mvars, vvars, kvars, wvars, dvars, tvars, gvars, pvars>>
    \/ U_Next /\ UNCHANGED <<rvars, cvars, fvars, lvars, mvars, vvars, kvars, wvars, dvars, tvars, gvars, pvars>>

SpecUpdate == InitUpdate /\ [][NextUpdate]_vars

(***************************************************************************)
(* The claims.                                                             *)
(***************************************************************************)
LastEvent == r_trace[Len(r_trace)]
CallEvents == SelectSeq(r_trace, LAMBDA e : e.ev = "call")

\* C1: in _run_calibration_loop, once the operator has answered "abort" at any
\* calibration-failure prompt, the loop has been left by UserAbortError and
\* neither a further prompt nor a further attempt has followed the answer.
C1_AbortLeavesCalibrationLoop ==
    c_aborted => (c_pc = "raised" /\ c_exc = "UserAbortError" /\ c_afterAbort = 0)

C3_AbortFromOperationPropagates ==
    (/\ r_flavor = "exception"
     /\ r_handled = DefaultHandled
     /\ r_trace # <<>>
     /\ LastEvent = Event("call", "UserAbortError"))
        => (r_pc = "raised" /\ r_exc = "UserAbortError")

\* C4: under retry_on_exception, an operation that raises a handled exception
\* on its first two attempts and succeeds on the third returns the third
\* attempt's result without any prompt having been shown.
C4_TwoFailuresThenSuccessWithoutPrompt ==
    (/\ r_flavor = "exception"
     /\ r_pc = "returned"
     /\ Len(CallEvents) = 3
     /\ ExceptMatches(CallEvents[1].val, r_handled)
     /\ ExceptMatches(CallEvents[2].val, r_handled))
        => (Prompts(r_trace) = {} /\ r_ret = CallEvents[3].val)

\* C5: under retry_on_exception, the prompt is shown only after the third
\* failed attempt: whenever the prompt is up, or was answered, at least three
\* operation calls have failed before it.
C5_FirstPromptAfterThirdFailure ==
    r_flavor = "exception" =>
        /\ r_pc = "prompt" => NumCalls(r_trace) >= 3
        /\ \A i \in Prompts(r_trace) :
              Cardinality({j \in Calls(r_trace) : j < i}) >= 3

C7_UnhandledExceptionReRaised ==
    r_flavor = "exception" =>
        \A i \in Calls(r_trace) :
            (r_trace[i].val \in ExcClasses /\ ~ExceptMatches(r_trace[i].val, r_handled))
                => (i = Len(r_trace) /\ r_pc = "raised" /\ r_exc = r_trace[i].val)

C7_Witness ==
    /\ r_flavor = "exception"
    /\ r_handled = {"IPXSerialError"}
    /\ r_trace # <<>>
    /\ LastEvent = Event("call", "ValueError")
    /\ r_pc = "raised"
    /\ r_exc = "ValueError"

\* C8: in retry_on_exception, after the operator answers "skip" the call has
\* returned None; it has not raised.
C8_SkipReturnsNone ==
    (r_flavor = "exception" /\ r_trace # <<>> /\ LastEvent = Event("prompt", "skip"))
        => (r_pc = "returned" /\ r_ret = "None")

\* C9: in the calibration loop no prompt is up for a UID before at least
\* three attempts for that UID have failed.
C9_NoCalibrationPromptBeforeThreeFailures ==
    c_pc \in {"prompt_mag", "prompt_stuck", "prompt_exc"} => c_fails >= AutoRetryBudget

\* C10: _send_and_receive_listen never returns an empty frame, and a first
\* read that times out ends the call with IPXNoResponseError.
C10_FrameNeverEmpty ==
    /\ l_pc = "returned" => l_ret # <<>>
    /\ l_first = "timeout" => (l_pc = "raised" /\ l_exc = "IPXNoResponseError")

C10_Witness ==
    /\ l_pc = "returned"
    /\ Len(l_ret) >= 2
    /\ l_first = "byte"

\* s is a prefix of t.
IsPrefix(s, t) == Len(s) <= Len(t) /\ SubSeq(t, 1, Len(s)) = s

\* The position in the byte stream bs of the newline that ends its first line
\* holding the terminator, 0 when bs has no complete terminator line.
TermLineEnd(bs, term) ==
    LET ends == {k \in 1..Len(bs) :
                    /\ bs[k] = "n"
                    /\ \E i \in 1..(k - 1) :
                          /\ bs[i] = term
                          /\ \A j \in i..(k - 1) : bs[j] # "n"}
    IN  IF term = "None" \/ ends = {} THEN 0
        ELSE CHOOSE k \in ends : \A m \in ends : k <= m

C13_TerminatorStopsSameIteration ==
    [][(/\ l_pc = "loop"
        /\ l_term # "None"
        /\ l_read' # l_read
        /\ DecodeUtf8(l_dbuf \o l_inwaiting).ok
        /\ TermLineEnd(l_dbuf \o l_inwaiting, l_term) > 0)
           => (/\ l_pc' = "returned"
               /\ l_ret' = l_all \o l_inwaiting
               /\ l_idle' = 0
               /\ l_idle' <= ListenTicks)]_vars

C13_Witness ==
    /\ l_pc = "returned"
    /\ l_term = "T"
    /\ l_idle = 0
    /\ Len(l_ret) >= 3
    /\ TermLineEnd(l_ret, l_term) = Len(l_ret)

\* C14: a read that ends without a terminator line in its frame ends only
\* once the time since the last read of bytes exceeds listen_duration, and
\* every read of bytes sets that time back to zero.
C14_StopsOnlyAfterIdleTimeout ==
    [][l_pc = "loop" =>
          /\ (l_read' # l_read) => (l_idle' = 0)
          /\ (l_pc' # "loop" /\ TermLineEnd(l_ret', l_term) = 0)
                => (l_idle > ListenTicks /\ l_idle' > ListenTicks)]_vars

C14_Witness ==
    /\ l_pc = "returned"
    /\ l_term = "T"
    /\ TermLineEnd(l_ret, l_term) = 0
    /\ l_idle > ListenTicks
    /\ Len(l_ret) >= 3

\* C15: the frame returned is exactly the bytes the port handed to the read
\* calls, the first byte and then every chunk, in order; while the loop runs
\* all_responses holds exactly those bytes.
C15_FrameIsEveryByteRead ==
    /\ l_pc = "loop" => l_all = l_read
    /\ l_pc = "returned" => (l_ret = l_read /\ IsPrefix(l_ret, l_sent))

C15_Witness ==
    /\ l_pc = "returned"
    /\ l_decfail
    /\ Len(l_ret) >= 3
    /\ l_ret[Len(l_ret)] # "n"
    /\ l_ret = l_read

\* C16: after a decode failure of the line buffer in the loop the call has
\* not raised (it is still reading, or has returned a frame), the iteration
\* that failed kept its bytes in decode_buffer, and the read goes on to end
\* with a returned frame.
C16_DecodeFailureNeverRaises ==
    /\ [][(/\ l_decfail' => (l_pc' \in {"loop", "returned"} /\ l_exc' = "none")
           /\ (/\ l_pc = "loop"
               /\ l_read' # l_read
               /\ ~DecodeUtf8(l_dbuf \o l_inwaiting).ok)
                 => (l_decfail' /\ l_dbuf' = l_dbuf \o l_inwaiting))]_vars
    /\ (l_decfail ~> (l_pc = "returned" /\ l_ret # <<>>))

C16_Witness ==
    /\ l_decfail
    /\ l_pc = "returned"
    /\ ~DecodeUtf8(l_ret).ok

\* C17: with self.verify set, a setter that received a decodable response
\* returns (the stripped text) exactly when that text, lower-cased, starts
\* with the lower-cased confirmation phrase of that setter; otherwise it
\* raises IPXVerificationError, whose message carries the command sent, the
\* expected phrase and the actual text.
C17_SetterVerification ==
    (/\ m_op \in Setters
     /\ m_verify
     /\ m_pc \in {"returned", "raised"}
     /\ m_resp # <<>>
     /\ DecodeUtf8(m_resp).ok)
        => LET actual == Strip(DecodeUtf8(m_resp).text)
               expected == Responses(m_op)
               confirms == StartsWith(Lower(actual), Lower(expected))
           IN  /\ (m_pc = "returned") <=> confirms
               /\ confirms => m_ret = [kind |-> "string", val |-> actual]
               /\ ~confirms =>
                     /\ m_pc = "raised"
                     /\ m_exc = "IPXVerificationError"
                     /\ m_msg = [command |-> FormatCommand(m_op, m_uid, m_arg),
                                 expected |-> expected,
                                 actual |-> actual]

C17_Witness ==
    /\ m_op = "set_gain"
    /\ m_verify
    /\ m_resp = <<" ", "u", "V">>
    /\ m_pc = "returned"
    /\ m_ret = [kind |-> "string", val |-> <<"u", "V">>]

\* C18: get_status and get_raw called with UID 0 and an allowed data_type
\* have returned the empty string after logging the warning, and nothing was
\* handed to the transport: no command sent, no response read.
C18_UidZeroReadIsNoOp ==
    (/\ m_op \in {"get_status", "get_raw"}
     /\ m_uid = 0
     /\ m_dtype \in AllowedTypes(m_op)
     /\ m_pc # "call")
        => /\ m_pc = "returned"
           /\ m_ret = [kind |-> "string", val |-> <<>>]
           /\ m_warned
           /\ m_wire = <<>>
           /\ m_resp = <<>>

C18_Witness ==
    /\ m_op = "get_raw"
    /\ m_uid = 0
    /\ m_dtype = "array"
    /\ m_pc = "returned"
    /\ m_warned

\* C19: calibrate and the setters never hand the transport a command whose
\* target UID is 0: called with UID 0 they have returned after a warning and
\* sent nothing.
C19_UidZeroNeverDispatched ==
    (m_op \in Setters \cup {"calibrate"})
        => /\ \A i \in 1..Len(m_wire) : m_wire[i][3] # ToString(0)
           /\ (m_uid = 0 /\ m_dtype \in AllowedTypes(m_op) /\ m_pc # "call")
                 => (m_pc = "returned" /\ m_warned /\ m_wire = <<>>)

\* C20 (as claimed): validate_calibration_results returns (True, None) exactly
\* when every record has mean # 0 and std_dev # 0, the empty record set
\* included.
C20_ValidIffEveryRecordNonZero ==
    v_pc = "done" =>
        ((v_ret = [ok |-> TRUE, data |-> PyNone])
            <=> (\A i \in 1..Len(v_df) : v_df[i].mean # 0 /\ v_df[i].std_dev # 0))

\* C20 (amended): validate_calibration_results returns (True, None) exactly
\* when there is at least one record and every record has mean # 0 and
\* std_dev # 0; for no records at all it returns (False, None).
C20_ValidIffNonEmptyAndEveryRecordNonZero ==
    v_pc = "done" =>
        /\ (v_ret = [ok |-> TRUE, data |-> PyNone])
              <=> (/\ Len(v_df) > 0
                   /\ \A i \in 1..Len(v_df) : v_df[i].mean # 0 /\ v_df[i].std_dev # 0)
        /\ Len(v_df) = 0 => v_ret = [ok |-> FALSE, data |-> PyNone]

C20_Witness ==
    /\ v_pc = "done"
    /\ Len(v_df) = 2
    /\ v_df[1].mean < 0
    /\ v_ret = [ok |-> TRUE, data |-> PyNone]

\* The sensor_num values of cal_df that have a record with a zero mean or a
\* zero standard deviation.
FailingSensors(cal_df) ==
    {cal_df[i].sensor_num :
        i \in {j \in 1..Len(cal_df) : cal_df[j].mean = 0 \/ cal_df[j].std_dev = 0}}

\* C21: whenever validate_calibration_results returns False, the second
\* element of the tuple is the ascending, duplicate-free list of the
\* sensor_num values that have a record with mean = 0 or std_dev = 0; it is
\* never None.
C21_FalseCarriesFailingSensors ==
    (v_pc = "done" /\ ~v_ret.ok) =>
        /\ ~v_ret.data.none
        /\ v_ret.data.list = SortedSeq(FailingSensors(v_df))

\* C21, amended: a False result for a DataFrame that has records carries
\* exactly that list (ascending, without duplicates, never None); the empty
\* DataFrame gives (False, None).
C21_FalseCarriesFailingSensorsUnlessEmpty ==
    (v_pc = "done" /\ ~v_ret.ok) =>
        IF v_df = <<>>
        THEN v_ret.data.none
        ELSE /\ ~v_ret.data.none
             /\ v_ret.data.list = SortedSeq(FailingSensors(v_df))
             /\ \A i \in 1..Len(v_ret.data.list) :
                   \E j \in 1..Len(v_df) :
                      /\ v_df[j].sensor_num = v_ret.data.list[i]
                      /\ (v_df[j].mean = 0 \/ v_df[j].std_dev = 0)

\* Two failing records arrive with the higher sensor number first and the
\* call has returned False with both sensors listed.
C21_Witness ==
    /\ v_pc = "done"
    /\ ~v_ret.ok
    /\ Len(v_df) = 2
    /\ v_df[1].sensor_num > v_df[2].sensor_num
    /\ Len(v_ret.data.list) = 2

\* The median absolute deviation of a sample is zero exactly when more than
\* half of its values are one and the same value.
ZeroMadSample(sample) ==
    \E v \in {sample[i] : i \in 1..Len(sample)} :
        2 * Cardinality({i \in 1..Len(sample) : sample[i] = v}) > Len(sample)

FrozenPair(readings, index) ==
    \E p \in 1..(Len(readings) - 1) :
        Cardinality({j \in 1..Len(index) :
                        readings[p][index[j] + 1] = readings[p + 1][index[j] + 1]}) > 3

\* C23: raw_data_check takes exactly num_readings raw samples; when the
\* outlier check of the first sample passes it returns passed = False if and
\* only if some consecutive pair of samples has identical values at more than
\* 3 of the given indices; the second element returned is the first sample.
C23_RawDataCheck ==
    (k_fn = "raw_data_check" /\ k_pc = "done") =>
        /\ k_gets = k_num
        /\ Len(k_readings) = k_num
        /\ k_ret.values = k_readings[1]
        /\ AbnormalHighMagnitudeCheck(k_readings[1], TRUE).result = "True" =>
              (~k_ret.passed <=> FrozenPair(k_readings, k_index.list))

\* The call returned False for three samples whose first passed the outlier
\* check: the first pair changed, the second pair is frozen at four indices.
C23_Witness ==
    /\ k_fn = "raw_data_check"
    /\ k_pc = "done"
    /\ ~k_ret.passed
    /\ k_num = 3
    /\ AbnormalHighMagnitudeCheck(k_readings[1], TRUE).result = "True"
    /\ k_readings[1] # k_readings[2]
    /\ k_readings[2] = k_readings[3]
    /\ Len(k_index.list) = 4

\* The loop has just taken the `break` of a successful attempt: the UID before
\* c_idx was reported calibrated and c_last is what the device did in that
\* attempt.
JustAccepted ==
    /\ c_idx > 1
    /\ c_status[c_idx - 1] = "calibrated"
    /\ c_last # NoAttempt
    /\ c_counter = 0
    /\ c_fails = 0

\* C24: every UID the calibration loop reports as calibrated has passed the
\* stuck-sensor check in that same attempt: a sensor with all records non-zero
\* whose consecutive raw samples are frozen is not reported successful.
C24_AcceptedPassedStuckCheck ==
    JustAccepted => ~c_last.frozen

\* C25: the calibration loop reports a UID as calibrated only in an attempt
\* whose records passed structural validation: an attempt with a zero-mean or
\* zero-std_dev record, or with no record, never ends with the UID accepted.
C25_AcceptedPassedValidation ==
    JustAccepted => ValidateKind(c_last.cal).ok

\* C26: after the with block of an IPXSerialCommunicator is left on any path
\* (normal completion, an IPX serial error, any other exception, a
\* UserAbortError) the connection is closed, and the exit does not suppress
\* the exception.  IPXGeosenseTester, which forwards to its communicator's
\* __enter__ and __exit__, is covered too.
C26_WithBlockClosesAndPropagates ==
    (/\ w_cm \in {"IPXSerialCommunicator", "IPXGeosenseTester"}
     /\ w_pc \in {"after", "returned", "raised"}) =>
        /\ ~w_open
        /\ w_body \in ExcClasses => (w_pc = "raised" /\ w_exc = w_body)
        /\ w_body \in {"end", "return"} => w_pc # "raised"

\* A UserAbortError left the body of a communicator's with block after a
\* command was exchanged, and the with statement is over.
C26_Witness ==
    /\ w_cm = "IPXSerialCommunicator"
    /\ w_pc = "raised"
    /\ w_exc = "UserAbortError"
    /\ w_body = "UserAbortError"
    /\ w_cmds > 0
    /\ ~w_open

\* The UIDs of a listing other than the check sensor's, in listing order.
OtherThanCheck(listing) ==
    [i \in 1..Cardinality({j \in 1..Len(listing) : listing[j] # CheckUid}) |->
        listing[CHOOSE j \in 1..Len(listing) :
                   /\ listing[j] # CheckUid
                   /\ Cardinality({k \in 1..j : listing[k] # CheckUid}) = i]]

\* The listing has exactly num_sensors UIDs besides the check sensor's.
ListingMatches(listing, num_sensors) == Len(OtherThanCheck(listing)) = num_sensors

\* C27: verify_sensor_count performs at most max_retries list_uids round
\* trips; it returns (valid_uids, check_sensor_found) at the first attempt in
\* which the number of listed UIDs other than the check sensor's equals
\* num_sensors, valid_uids never holds the check UID, check_sensor_found is
\* true exactly when the check UID was listed in that attempt; it returns None
\* if and only if all max_retries attempts mismatched.
C27_VerifySensorCount ==
    /\ d_attempt <= d_maxretries
    /\ Len(d_lists) <= d_attempt
    /\ d_pc = "verified" =>
          LET last == d_lists[Len(d_lists)]
              mismatchedBefore ==
                  \A i \in 1..(Len(d_lists) - 1) : ~ListingMatches(d_lists[i], d_num)
          IN  /\ mismatchedBefore
              /\ ~d_result.none =>
                    /\ ListingMatches(last, d_num)
                    /\ d_result.uids = OtherThanCheck(last)
                    /\ \A i \in 1..Len(d_result.uids) : d_result.uids[i] # CheckUid
                    /\ d_result.check <=> (\E i \in 1..Len(last) : last[i] = CheckUid)
              /\ d_result.none <=>
                    /\ Len(d_lists) = d_maxretries
                    /\ ~ListingMatches(last, d_num)

\* verify_sensor_count returned on its second round trip, after a mismatch,
\* with two UIDs and the check sensor found among three listed.
C27_Witness ==
    /\ d_pc = "verified"
    /\ ~d_result.none
    /\ Len(d_lists) = 2
    /\ Len(d_lists[2]) = 3
    /\ Len(d_result.uids) = 2
    /\ d_result.check

C30_PromptCarriesErrorText ==
    \A i \in 1..Len(d_prompts) : d_prompts[i] # ""

\* The text is a single line: it ends in a newline and holds no other one.
SingleLine(text) ==
    /\ text # <<>>
    /\ text[Len(text)] = "\n"
    /\ \A i \in 1..(Len(text) - 1) : text[i] # "\n"

\* C31: for every command template and every argument value the client
\* accepts (integer or string UID, parameter value, alias) the rendered
\* command is a single line that ends in exactly one newline character and
\* contains no other newline.
C31_RenderedCommandIsOneLine ==
    t_pc = "done" => SingleLine(t_cmd)

\* C31, amended: the rendered command is a single line ending in exactly one
\* newline exactly when the template is one of the IPX templates (all but the
\* Geosense one, which ends in a carriage return) and no argument the
\* template uses has a newline in its text; integers never have one.
C31_OneLineIffIpxTemplateAndCleanArgs ==
    t_pc = "done" =>
        /\ SingleLine(t_cmd) <=>
              /\ t_op # "get_GXM_measurement"
              /\ \A n \in FieldsOf(t_op) :
                    \/ t_args[n].kind = "int"
                    \/ \A i \in 1..Len(t_args[n].text) : t_args[n].text[i] # "\n"
        /\ t_op = "get_GXM_measurement" => t_cmd[Len(t_cmd)] = "\r"

\* set_alias was rendered with an integer UID and an integer alias.
C31_Witness ==
    /\ t_pc = "done"
    /\ t_op = "set_alias"
    /\ t_args[1].kind = "int" /\ t_args[2].kind = "int"
    /\ SingleLine(t_cmd)
    /\ Len(t_cmd) = 7

\* C32: gxm_measure_test converts the axis value from the raw value clamped
\* to [-1, 1]: for a raw axis value outside [-1, 1] it returns a result
\* computed from the clamped value and does not raise.
C32_OutOfRangeAxisIsClamped ==
    (g_pc = "done" /\ ~AsinDefined(g_parts.axis)) =>
        /\ g_exc = "none"
        /\ g_ret # <<>>
        /\ g_ret[1].axis_a = AsinMilliDegrees(Clamp(g_parts.axis))

\* The bytes of bs after its last newline: the line still unfinished.
UnfinishedLine(bs) == SubSeq(bs, LastNewline(bs) + 1, Len(bs))

\* C33 (as claimed): a terminator line split across two or more arrival
\* chunks is recognised in the iteration in which its newline arrives (the
\* terminator text is in decode_buffer, the newline in the chunk read), and
\* terminator text in a still-partial line does not stop the read.
C33_SplitTerminatorLineRecognised ==
    [][(l_pc = "loop" /\ l_term # "None" /\ l_read' # l_read) =>
          /\ (/\ \E i \in 1..Len(l_dbuf) : l_dbuf[i] = l_term
              /\ \E j \in 1..Len(l_inwaiting) : l_inwaiting[j] = "n")
                => l_pc' = "returned"
          /\ TermLineEnd(l_dbuf \o l_inwaiting, l_term) = 0 => l_pc' = "loop"]_vars

\* C33 (amended): while everything read so far decodes, decode_buffer is the
\* unfinished last line of what was read; a terminator line whose text is in
\* decode_buffer and whose newline is in the chunk read is recognised in that
\* iteration when decode_buffer with the chunk decodes as UTF-8 (a chunk that
\* ends inside a multi-byte character puts the recognition off); and a read
\* of bytes without a complete terminator line in decode_buffer and the chunk
\* does not stop the read.
C33_SplitTerminatorLineRecognisedWhenDecodable ==
    /\ []((/\ l_pc = "loop"
           /\ Len(l_read) >= 2
           /\ DecodeUtf8(l_read).ok)
              => l_dbuf = UnfinishedLine(l_read))
    /\ [][(l_pc = "loop" /\ l_term # "None" /\ l_read' # l_read) =>
             /\ (/\ DecodeUtf8(l_dbuf \o l_inwaiting).ok
                 /\ \E i \in 1..Len(l_dbuf) : l_dbuf[i] = l_term
                 /\ \E j \in 1..Len(l_inwaiting) : l_inwaiting[j] = "n")
                   => l_pc' = "returned"
             /\ TermLineEnd(l_dbuf \o l_inwaiting, l_term) = 0 => l_pc' = "loop"]_vars

\* The terminator text came with the first read, its newline in a later
\* chunk, and the read ended there.
C33_Witness ==
    /\ l_pc = "returned"
    /\ l_term = "T"
    /\ l_ret = <<"T", "n">>
    /\ l_idle = 0

\* The bytes are not valid UTF-8 and no further byte can make them valid.
InvalidUtf8(bs) == ~DecodeUtf8(bs).ok /\ ~DecodeUtf8(bs \o <<"C">>).ok

\* C34: terminator detection survives earlier undecodable input: when the
\* bytes read before are not valid UTF-8 and the chunk read now holds a
\* complete terminator line, the read stops in this iteration instead of
\* waiting out the idle timeout.
C34_TerminatorSeenAfterUndecodableInput ==
    [][(/\ l_pc = "loop"
        /\ l_read' # l_read
        /\ InvalidUtf8(l_dbuf)
        /\ TermLineEnd(l_inwaiting, l_term) > 0)
           => l_pc' = "returned"]_vars

\* C35: every call of _send_and_receive_listen on an open connection
\* eventually returns a frame or raises, once the device has stopped
\* sending; also when iterations of the loop hit a decode failure.
C35_ListenEventuallyEnds ==
    l_conn => <>(l_pc \in {"returned", "raised"})

\* A read whose every chunk failed to decode has ended by the idle timeout
\* with the bytes it read.
C35_Witness ==
    /\ l_pc = "returned"
    /\ l_conn
    /\ l_decfail
    /\ InvalidUtf8(l_dbuf)
    /\ l_idle > ListenTicks
    /\ Len(l_ret) >= 2

\* Some pair of consecutive samples agrees at every position listed in index.
FullyFrozenPair(readings, index) ==
    \E p \in 1..(Len(readings) - 1) :
        \A j \in 1..Len(index) : readings[p][index[j] + 1] = readings[p + 1][index[j] + 1]

\* C36: for every non-empty sensor_index list passed to raw_data_check, a
\* fully frozen sensor (the values at all listed indices identical in some
\* consecutive pair of samples) makes the check return False, also for lists
\* of one to three failing sensor numbers.
C36_FullyFrozenFailsTheCheck ==
    (/\ k_fn = "raw_data_check"
     /\ k_pc = "done"
     /\ ~k_index.none
     /\ k_index.list # <<>>
     /\ FullyFrozenPair(k_readings, k_index.list))
        => ~k_ret.passed

\* C37: an exception raised inside a `with IPXModbusTester(...)` block
\* propagates after the Modbus client has been closed; leaving the context
\* never suppresses the exception.
C37_ModbusWithBlockPropagates ==
    (/\ w_cm = "IPXModbusTester"
     /\ w_pc \in {"after", "returned", "raised"}
     /\ w_body \in ExcClasses) =>
        /\ ~w_open
        /\ w_pc = "raised"
        /\ w_exc = w_body

\* The operator answered 'retry' at the prompt the loop was showing.
RetryAnsweredAt(prompt) ==
    c_pc = prompt /\ c_pc' = "attempt" /\ c_answer' = "retry"

\* A failed check is retried without a prompt only while counter < 3, and a
\* check-failure prompt is shown only once counter has reached 3.
PromptsFollowCounter ==
    /\ (c_pc = "attempt" /\ c_pc' = "attempt" /\ c_idx' = c_idx)
          => c_counter' < AutoRetryBudget
    /\ (c_pc = "attempt" /\ c_pc' \in {"prompt_mag", "prompt_stuck"})
          => c_counter' >= AutoRetryBudget

\* C38 (as claimed): after 'retry' at a check-failure prompt the automatic
\* retry budget is restored (counter is 0 again, so the next two failed
\* checks are retried without a prompt), both after a magnitude-check prompt
\* and after a stuck-sensor prompt.
C38_RetryRestoresBudget ==
    [][/\ PromptsFollowCounter
       /\ (RetryAnsweredAt("prompt_mag") \/ RetryAnsweredAt("prompt_stuck"))
             => c_counter' = 0]_vars

\* C38 (amended): 'retry' at the magnitude-check prompt sets counter to 0, so
\* the next two failed checks are retried without a prompt; 'retry' at the
\* stuck-sensor prompt keeps counter (3 or more), so the next failed check
\* prompts again.
C38_RetryRestoresBudgetAtMagnitudePrompt ==
    [][/\ PromptsFollowCounter
       /\ RetryAnsweredAt("prompt_mag") => c_counter' = 0
       /\ RetryAnsweredAt("prompt_stuck")
             => (c_counter' = c_counter /\ c_counter' >= AutoRetryBudget)]_vars

\* 'retry' was answered at the stuck-sensor prompt of the third attempt and
\* the loop is about to calibrate again with the counter still at 3.
C38_Witness ==
    /\ c_pc = "attempt"
    /\ c_answer = "retry"
    /\ c_counter = AutoRetryBudget
    /\ AttemptOutcome(c_last, c_counter) = "prompt_stuck"

\* The positions in the call log of the calls of `op` for the UID text `uid`.
CallsOf(op, uid) ==
    {k \in 1..Len(p_cmds) : p_cmds[k].op = op /\ p_cmds[k].uid = uid}

C40_CheckSensorNeverRenamed ==
    /\ \A k \in 1..Len(u_cmds) : u_cmds[k].current_uid # CheckUid
    /\ u_pc = "confirm" => u_uids[Len(u_uids)] # CheckUid

====
